---- MODULE Spec2Model ----
(***************************************************************************)
(* Recurring-task generation of the TodoApp server                         *)
(* (src/src/services/recurringTodoService.ts and the Prisma schema of      *)
(* src/prisma/migrations).                                                 *)
(*                                                                         *)
(* Instants are modelled at the granularity of one day: a Date is the      *)
(* number of days since 2024-01-01, which was a Monday, so that a date's   *)
(* weekday (0 = MO .. 6 = SU, the numbering of rrule) is the date modulo   *)
(* 7.  All dates of one template share their time of day, as they do in    *)
(* rrule, which carries dtstart's time of day to every occurrence.         *)
(*                                                                         *)
(* Row ids of the Todo table are not modelled: the table is a bag of rows, *)
(* so that two rows with the same content are still two rows.              *)
(***************************************************************************)
EXTENDS Integers, Sequences, FiniteSets, Bags, TLC

VARIABLES
    recurringTodos,   \* table RecurringTodo: id -> row
    exceptions,       \* table RecurrenceException: a set of rows
    todos,            \* table Todo: a bag of rows
    clock,            \* the wall clock read by `new Date()`
    calls,            \* the generateInstances calls in flight: caller -> frame
    reply,            \* what the caller of the last request or call has got
    workspaces,       \* table Workspace: id -> row
    members           \* table WorkspaceMember: a set of rows

vars == <<recurringTodos, exceptions, todos, clock, calls,
          reply, workspaces, members>>

\* The state of the recurring-task service, and the state outside it.
serviceVars == <<recurringTodos, exceptions, todos, clock, calls>>
outsideVars == <<reply, workspaces, members>>

----------------------------------------------------------------------------
(* Bounds of the model. *)

\* The wall clock takes the values 0..MaxClock.
MaxClock == 1

\* At most MaxExceptions rows of RecurrenceException are stored at a time.
MaxExceptions == 2

\* The concurrent specification has the callers 1..MaxCallers.
MaxCallers == 2

\* The ids the model gives to RecurringTodo rows.
RecurringTodoIds == {1}

\* The users of the model.
UserIds == {1}

----------------------------------------------------------------------------
(* Nullable columns.  A null DateTime is NoDate; a null (or zero, which    *)
(* JavaScript treats alike in a condition) Int is NoInt; a null foreign    *)
(* key is NoId.                                                            *)

NoDate == 0 - 1

NoInt == 0

NoId == 0

----------------------------------------------------------------------------
(* The proleptic Gregorian calendar, as JavaScript's Date and rrule        *)
(* compute it.                                                             *)

Years == 2024 .. 2029

IsLeap(y) == (y % 4 = 0 /\ y % 100 # 0) \/ y % 400 = 0

DaysInYear(y) == IF IsLeap(y) THEN 366 ELSE 365

DaysInMonth(y, m) ==
    IF m = 2 THEN (IF IsLeap(y) THEN 29 ELSE 28)
    ELSE IF m \in {4, 6, 9, 11} THEN 30 ELSE 31

RECURSIVE DaysBeforeYear(_)
DaysBeforeYear(y) ==
    IF y <= 2024 THEN 0 ELSE DaysBeforeYear(y - 1) + DaysInYear(y - 1)

RECURSIVE DaysBeforeMonth(_, _)
DaysBeforeMonth(y, m) ==
    IF m <= 1 THEN 0 ELSE DaysBeforeMonth(y, m - 1) + DaysInMonth(y, m - 1)

\* The date y-m-d.
DayNumber(y, m, d) == DaysBeforeYear(y) + DaysBeforeMonth(y, m) + d - 1

YearOf(n) ==
    CHOOSE y \in Years : DaysBeforeYear(y) <= n /\ n < DaysBeforeYear(y + 1)

MonthOf(n) ==
    LET y == YearOf(n)
        r == n - DaysBeforeYear(y)
    IN  CHOOSE m \in 1 .. 12 :
            DaysBeforeMonth(y, m) <= r /\ r < DaysBeforeMonth(y, m) + DaysInMonth(y, m)

DayOfMonth(n) ==
    LET y == YearOf(n)
    IN  n - DaysBeforeYear(y) - DaysBeforeMonth(y, MonthOf(n)) + 1

\* rrule's weekday number of a date: MO = 0 .. SU = 6.
Weekday(n) == n % 7

\* Months counted from January 2024.
MonthIndex(n) == (YearOf(n) - 2024) * 12 + (MonthOf(n) - 1)

\* WEEKDAY_MAP: the day strings of byWeekDay as rrule weekday numbers.
WEEKDAY_MAP == [MO |-> 0, TU |-> 1, WE |-> 2, TH |-> 3, FR |-> 4, SA |-> 5, SU |-> 6]

----------------------------------------------------------------------------
(* The sorted sequence of a finite set of dates. *)

RECURSIVE SortedSeq(_)
SortedSeq(S) ==
    IF S = {} THEN <<>>
    ELSE LET lo == CHOOSE x \in S : \A y \in S : x <= y
         IN  <<lo>> \o SortedSeq(S \ {lo})

SeqRange(s) == {s[i] : i \in 1 .. Len(s)}

----------------------------------------------------------------------------
(* rrule: new RRule(options).between(after, before, true).                 *)
(*                                                                         *)
(* rrule walks the periods ("frames") of the rule from the one holding    *)
(* dtstart, interval periods at a time.  In each frame it takes the days   *)
(* that the BYxxx parts select, in ascending order, and for each day that  *)
(* is not before dtstart: it stops if the day is after `until`; it stops   *)
(* if the day is after `before`; it yields the day if it is not before     *)
(* `after`; and it stops once `count` days from dtstart on were visited.   *)
(* A missing byweekday (WEEKLY) defaults to dtstart's weekday, a missing   *)
(* bymonthday (MONTHLY, YEARLY) to dtstart's day of month, and a missing   *)
(* bymonth (YEARLY) to dtstart's month.  A day that the month of a frame   *)
(* does not have is not selected: there is no clamping.  Weeks start on    *)
(* Monday (wkst = MO).                                                     *)

\* Frames whose MONTHLY day is clamped to the last day of a shorter month.
FrameDaysClamped(options, k) ==
    LET start == options.dtstart
        step  == k * options.interval
    IN  CASE options.freq = "DAILY" -> {start + step}
          [] options.freq = "WEEKLY" ->
                LET monday == start - Weekday(start) + 7 * step
                    days   == IF options.byweekday = {} THEN {Weekday(start)}
                              ELSE options.byweekday
                IN  {monday + w : w \in days}
          [] options.freq = "MONTHLY" ->
                LET mi == MonthIndex(start) + step
                    y  == 2024 + (mi \div 12)
                    m  == (mi % 12) + 1
                    d  == IF options.bymonthday = NoInt THEN DayOfMonth(start)
                          ELSE options.bymonthday
                IN  IF d <= DaysInMonth(y, m) THEN {DayNumber(y, m, d)}
                    ELSE {DayNumber(y, m, DaysInMonth(y, m))}
          [] options.freq = "YEARLY" ->
                LET y == YearOf(start) + step
                    m == MonthOf(start)
                    d == DayOfMonth(start)
                IN  IF d <= DaysInMonth(y, m) THEN {DayNumber(y, m, d)} ELSE {}

\* Weeks that are counted from dtstart's own weekday instead of from Monday.
FrameDaysWeekFromStart(options, k) ==
    IF options.freq = "WEEKLY"
    THEN LET first == options.dtstart + 7 * k * options.interval
             days  == IF options.byweekday = {} THEN {Weekday(options.dtstart)}
                      ELSE options.byweekday
         IN  {first + ((w - Weekday(options.dtstart)) % 7) : w \in days}
    ELSE FrameDaysClamped(options, k)

\* The selected days of the k-th frame of the rule (k = 0: dtstart's frame).
FrameDays(options, k) ==
    LET start == options.dtstart
        step  == k * options.interval
    IN  CASE options.freq = "DAILY" -> {start + step}
          [] options.freq = "WEEKLY" ->
                LET monday == start - Weekday(start) + 7 * step
                    days   == IF options.byweekday = {} THEN {Weekday(start)}
                              ELSE options.byweekday
                IN  {monday + w : w \in days}
          [] options.freq = "MONTHLY" ->
                LET mi == MonthIndex(start) + step
                    y  == 2024 + (mi \div 12)
                    m  == (mi % 12) + 1
                    d  == IF options.bymonthday = NoInt THEN DayOfMonth(start)
                          ELSE options.bymonthday
                IN  IF d <= DaysInMonth(y, m) THEN {DayNumber(y, m, d)} ELSE {}
          [] options.freq = "YEARLY" ->
                LET y == YearOf(start) + step
                    m == MonthOf(start)
                    d == DayOfMonth(start)
                IN  IF d <= DaysInMonth(y, m) THEN {DayNumber(y, m, d)} ELSE {}

\* The first day of the k-th frame: no day of the frame or of a later one is
\* before it.
FrameStart(options, k) ==
    LET start == options.dtstart
        step  == k * options.interval
    IN  CASE options.freq = "DAILY" -> start + step
          [] options.freq = "WEEKLY" -> start - Weekday(start) + 7 * step
          [] options.freq = "MONTHLY" ->
                LET mi == MonthIndex(start) + step
                IN  DayNumber(2024 + (mi \div 12), (mi % 12) + 1, 1)
          [] options.freq = "YEARLY" -> DayNumber(YearOf(start) + step, 1, 1)

\* The walk of one frame's days (ascending), then of the next frame.
\* `left` is the number of days count still allows, or NoInt without count.
RECURSIVE RRuleIter(_, _, _, _, _, _, _)
RRuleIter(options, after, before, k, days, left, acc) ==
    IF days = <<>> THEN
        IF FrameStart(options, k + 1) > before THEN acc
        ELSE RRuleIter(options, after, before, k + 1,
                       SortedSeq(FrameDays(options, k + 1)), left, acc)
    ELSE
        LET d == Head(days) IN
        IF d < options.dtstart THEN
            RRuleIter(options, after, before, k, Tail(days), left, acc)
        ELSE IF options.until # NoDate /\ d > options.until THEN acc
        ELSE IF d > before THEN acc
        ELSE
            LET out == IF d >= after THEN Append(acc, d) ELSE acc IN
            IF options.count # NoInt /\ left = 1 THEN out
            ELSE RRuleIter(options, after, before, k, Tail(days),
                           IF options.count # NoInt THEN left - 1 ELSE left, out)

\* A rule that is walked, and counted, from the start of the window when
\* that is later than dtstart.
RRuleBetweenFromWindow(options, after, before) ==
    LET moved == [options EXCEPT
                     !.dtstart = IF after > options.dtstart THEN after
                                 ELSE options.dtstart]
    IN  RRuleIter(moved, after, before, 0, SortedSeq(FrameDays(moved, 0)),
                  moved.count, <<>>)

\* A rule whose occurrences are listed from dtstart, whatever the start of
\* the window.
RRuleBetweenIgnoringAfter(options, after, before) ==
    RRuleIter(options, options.dtstart, before, 0,
              SortedSeq(FrameDays(options, 0)), options.count, <<>>)

\* rule.between(after, before, true)
RRuleBetween(options, after, before) ==
    RRuleIter(options, after, before, 0, SortedSeq(FrameDays(options, 0)),
              options.count, <<>>)

----------------------------------------------------------------------------
(* Rows. *)

\* A row of RecurringTodo as create() stores it: the rule of `input`,
\* isActive true and no lastGenerated.  The title, description and priority
\* that are stamped on the instances are not modelled.
NewRecurringTodo(input) ==
    [userId        |-> input.userId,
     frequency     |-> input.frequency,
     interval      |-> IF input.interval = NoInt THEN 1 ELSE input.interval,
     byWeekDay     |-> input.byWeekDay,
     byMonthDay    |-> input.byMonthDay,
     startDate     |-> input.startDate,
     endType       |-> input.endType,
     endDate       |-> input.endDate,
     count         |-> input.count,
     lastGenerated |-> NoDate,
     isActive      |-> TRUE]

\* The rows of Todo that belong to template id, each as often as it is stored.
RECURSIVE BagCount(_, _)
BagCount(B, S) ==
    IF S = {} THEN 0
    ELSE LET x == CHOOSE x \in S : TRUE
         IN  CopiesIn(x, B) + BagCount(B, S \ {x})

\* The number of rows of `store` generated from template id for date.
InstanceCount(store, id, date) ==
    BagCount(store, {t \in BagToSet(store) :
                        t.recurringTodoId = id /\ t.recurringDate = date})

\* prisma.todo.create: the Todo table has no unique index on
\* (recurringTodoId, recurringDate), so the insert always adds a row.
TodoInsert(store, row) == store (+) SetToBag({row})

----------------------------------------------------------------------------
(* getOccurrences *)

\* Options whose `until` is the day after endDate.
RRuleOptionsUntilNextDay(recurringTodo) ==
    [freq       |-> recurringTodo.frequency,
     interval   |-> recurringTodo.interval,
     dtstart    |-> recurringTodo.startDate,
     byweekday  |-> IF recurringTodo.frequency = "WEEKLY"
                    THEN {WEEKDAY_MAP[day] : day \in recurringTodo.byWeekDay}
                    ELSE {},
     bymonthday |-> IF recurringTodo.frequency = "MONTHLY"
                    THEN recurringTodo.byMonthDay ELSE NoInt,
     until      |-> IF recurringTodo.endType = "ON_DATE" /\ recurringTodo.endDate # NoDate
                    THEN recurringTodo.endDate + 1 ELSE NoDate,
     count      |-> IF recurringTodo.endType = "AFTER_COUNT"
                    THEN recurringTodo.count ELSE NoInt]

RRuleOptions(recurringTodo) ==
    [freq       |-> recurringTodo.frequency,
     interval   |-> recurringTodo.interval,
     dtstart    |-> recurringTodo.startDate,
     byweekday  |-> IF recurringTodo.frequency = "WEEKLY"
                    THEN {WEEKDAY_MAP[day] : day \in recurringTodo.byWeekDay}
                    ELSE {},
     bymonthday |-> IF recurringTodo.frequency = "MONTHLY"
                    THEN recurringTodo.byMonthDay ELSE NoInt,
     until      |-> IF recurringTodo.endType = "ON_DATE"
                    THEN recurringTodo.endDate ELSE NoDate,
     count      |-> IF recurringTodo.endType = "AFTER_COUNT"
                    THEN recurringTodo.count ELSE NoInt]

\* Occurrences that are listed from the day after lastGenerated only.
GetOccurrencesAfterLastGenerated(recurringTodo, fromDate, toDate) ==
    RRuleBetween(RRuleOptions(recurringTodo),
                 IF recurringTodo.lastGenerated >= fromDate
                 THEN recurringTodo.lastGenerated + 1 ELSE fromDate,
                 toDate)

GetOccurrences(recurringTodo, fromDate, toDate) ==
    RRuleBetween(RRuleOptions(recurringTodo), fromDate, toDate)

----------------------------------------------------------------------------
(* generateInstances *)

\* A read whose date filter leaves out the two ends of the window.
FindUniqueExclusive(store, id, fromDate, toDate) ==
    [id         |-> id,
     row        |-> recurringTodos[id],
     exceptions |-> {e \in exceptions : e.recurringTodoId = id},
     instances  |-> {t \in BagToSet(store) :
                        /\ t.recurringTodoId = id
                        /\ t.recurringDate > fromDate
                        /\ t.recurringDate < toDate}]

\* A read that leaves out the soft-deleted instances.
FindUniqueNotDeleted(store, id, fromDate, toDate) ==
    [id         |-> id,
     row        |-> recurringTodos[id],
     exceptions |-> {e \in exceptions : e.recurringTodoId = id},
     instances  |-> {t \in BagToSet(store) :
                        /\ t.recurringTodoId = id
                        /\ t.deletedAt = NoDate
                        /\ t.recurringDate >= fromDate
                        /\ t.recurringDate <= toDate}]

\* prisma.recurringTodo.findUnique with its includes: the template's row,
\* all its exceptions, and its instances whose recurringDate is in
\* [fromDate, toDate], soft-deleted ones included.  Only called for a
\* stored id.
FindUnique(store, id, fromDate, toDate) ==
    [id         |-> id,
     row        |-> recurringTodos[id],
     exceptions |-> {e \in exceptions : e.recurringTodoId = id},
     instances  |-> {t \in BagToSet(store) :
                        /\ t.recurringTodoId = id
                        /\ t.recurringDate >= fromDate
                        /\ t.recurringDate <= toDate}]

\* The existing instances keyed by their due date.
ExistingDatesByDueDate(recurringTodo) ==
    {i.dueDate : i \in recurringTodo.instances}

ExistingDates(recurringTodo) ==
    {i.recurringDate : i \in recurringTodo.instances}

\* exceptions.get(dateStr): the exceptions of the template for the date
\* (the unique index keeps them to at most one).
ExceptionsAt(recurringTodo, date) ==
    {e \in recurringTodo.exceptions : e.originalDate = date}

\* A loop that does not look at the existing instances.
AlreadyExistsNever(recurringTodo, date) == FALSE

\* A loop that also takes a date as existing when an instance is due on it.
AlreadyExistsOrDue(recurringTodo, date) ==
    \/ date \in ExistingDates(recurringTodo)
    \/ date \in ExistingDatesByDueDate(recurringTodo)

\* The `continue` branches of the loop: the date already has an instance, or
\* has a skip exception.
AlreadyExists(recurringTodo, date) == date \in ExistingDates(recurringTodo)

\* A loop that ignores the skip exceptions.
IsSkippedNever(recurringTodo, date) == FALSE

IsSkipped(recurringTodo, date) ==
    \E e \in ExceptionsAt(recurringTodo, date) : e.action = "skip"

\* A due date that ignores the reschedule exceptions.
DueDateIgnoringExceptions(recurringTodo, date) == date

DueDate(recurringTodo, date) ==
    IF \E e \in ExceptionsAt(recurringTodo, date) :
            e.action = "reschedule" /\ e.newDate # NoDate
    THEN (CHOOSE e \in ExceptionsAt(recurringTodo, date) :
            e.action = "reschedule" /\ e.newDate # NoDate).newDate
    ELSE date

\* The data of prisma.todo.create.
TodoCreateData(recurringTodo, date) ==
    [userId          |-> recurringTodo.row.userId,
     dueDate         |-> DueDate(recurringTodo, date),
     recurringTodoId |-> recurringTodo.id,
     recurringDate   |-> date,
     deletedAt       |-> NoDate]

\* A loop that inserts every occurrence, stored already or not.
MissingDatesAll(recurringTodo, occurrences) == occurrences

\* The occurrences for which the loop reaches prisma.todo.create, in order.
RECURSIVE MissingDates(_, _)
MissingDates(recurringTodo, occurrences) ==
    IF occurrences = <<>> THEN <<>>
    ELSE LET date == Head(occurrences)
             rest == MissingDates(recurringTodo, Tail(occurrences))
         IN  IF AlreadyExists(recurringTodo, date) THEN rest
             ELSE IF IsSkipped(recurringTodo, date) THEN rest
             ELSE <<date>> \o rest

\* The Todo table after the loop has created an instance for each of dates.
RECURSIVE CreateInstances(_, _, _)
CreateInstances(store, recurringTodo, dates) ==
    IF dates = <<>> THEN store
    ELSE CreateInstances(TodoInsert(store, TodoCreateData(recurringTodo, Head(dates))),
                         recurringTodo, Tail(dates))

\* A check that forgets isActive.
ReturnsEarlyOnlyIfMissing(id) == id \notin DOMAIN recurringTodos

\* Whether generateInstances returns right after the read.
ReturnsEarly(id) ==
    id \notin DOMAIN recurringTodos \/ ~recurringTodos[id].isActive

\* The final update: prisma.recurringTodo.update({lastGenerated: new Date()}).
\* It throws, and writes nothing, when the row is gone.
SetLastGenerated(table, id) ==
    IF id \in DOMAIN table
    THEN [table EXCEPT ![id].lastGenerated = clock]
    ELSE table

\* A generation that also withdraws the stored instances of skipped dates.
GenerateInstancesTodosRetracting(store, id, fromDate, toDate) ==
    IF ReturnsEarly(id) THEN store
    ELSE LET recurringTodo == FindUnique(store, id, fromDate, toDate)
             occurrences   == GetOccurrences(recurringTodo.row, fromDate, toDate)
             created       == CreateInstances(store, recurringTodo,
                                  MissingDates(recurringTodo, occurrences))
             skipped       == {t \in BagToSet(created) :
                                  /\ t.recurringTodoId = id
                                  /\ IsSkipped(recurringTodo, t.recurringDate)}
         IN  [t \in BagToSet(created) \ skipped |-> CopiesIn(t, created)]

\* The Todo table that a generateInstances call which runs alone leaves,
\* when it finds the Todo table `store`.
GenerateInstancesTodos(store, id, fromDate, toDate) ==
    IF ReturnsEarly(id) THEN store
    ELSE LET recurringTodo == FindUnique(store, id, fromDate, toDate)
             occurrences   == GetOccurrences(recurringTodo.row, fromDate, toDate)
         IN  CreateInstances(store, recurringTodo,
                             MissingDates(recurringTodo, occurrences))

\* The RecurringTodo table that the call leaves.
GenerateInstancesRecurringTodos(id) ==
    IF ReturnsEarly(id) THEN recurringTodos
    ELSE SetLastGenerated(recurringTodos, id)

\* generateInstances(id, fromDate, toDate), run with no other operation
\* between its reads and writes.
GenerateInstances(id, fromDate, toDate) ==
    /\ todos' = GenerateInstancesTodos(todos, id, fromDate, toDate)
    /\ recurringTodos' = GenerateInstancesRecurringTodos(id)
    /\ UNCHANGED <<exceptions, clock, calls>>

----------------------------------------------------------------------------
(* The other operations of the service. *)

\* create(input): the row gets the next id of the table.
Create(id, input) ==
    /\ id \notin DOMAIN recurringTodos
    /\ recurringTodos' = [i \in DOMAIN recurringTodos \cup {id} |->
                            IF i = id THEN NewRecurringTodo(input)
                            ELSE recurringTodos[i]]
    /\ UNCHANGED <<exceptions, todos, clock, calls>>

\* update(id, userId, {isActive}): throws when the user has no such row.
Update(id, userId, isActive) ==
    /\ recurringTodos' =
          IF id \in DOMAIN recurringTodos /\ recurringTodos[id].userId = userId
          THEN [recurringTodos EXCEPT ![id].isActive = isActive]
          ELSE recurringTodos
    /\ UNCHANGED <<exceptions, todos, clock, calls>>

\* An insert that no unique index guards.
AddExceptionWithoutUniqueIndex(id, originalDate, action, newDate) ==
    /\ Cardinality(exceptions) < MaxExceptions
    /\ exceptions' =
          IF id \in DOMAIN recurringTodos
          THEN exceptions \cup {[recurringTodoId |-> id,
                                 originalDate    |-> originalDate,
                                 action          |-> action,
                                 newDate         |-> newDate]}
          ELSE exceptions
    /\ UNCHANGED <<recurringTodos, todos, clock, calls>>

\* addException: the insert is rejected when the template does not exist
\* (foreign key) or already has an exception for originalDate (unique index
\* RecurrenceException_recurringTodoId_originalDate_key).
AddException(id, originalDate, action, newDate) ==
    /\ Cardinality(exceptions) < MaxExceptions
    /\ exceptions' =
          IF /\ id \in DOMAIN recurringTodos
             /\ ~\E e \in exceptions :
                    e.recurringTodoId = id /\ e.originalDate = originalDate
          THEN exceptions \cup {[recurringTodoId |-> id,
                                 originalDate    |-> originalDate,
                                 action          |-> action,
                                 newDate         |-> newDate]}
          ELSE exceptions
    /\ UNCHANGED <<recurringTodos, todos, clock, calls>>

\* A removal that stamps the exception with the day of the call and leaves
\* it stored.
RemoveExceptionStamps(e) ==
    /\ e \in exceptions
    /\ exceptions' = (exceptions \ {e}) \cup {[e EXCEPT !.newDate = clock]}
    /\ UNCHANGED <<recurringTodos, todos, clock, calls>>

RemoveException(e) ==
    /\ e \in exceptions
    /\ exceptions' = exceptions \ {e}
    /\ UNCHANGED <<recurringTodos, todos, clock, calls>>

\* Time passes between two readings of the wall clock.
Tick ==
    /\ clock < MaxClock
    /\ clock' = clock + 1
    /\ UNCHANGED <<recurringTodos, exceptions, todos, calls>>

----------------------------------------------------------------------------
(* The inputs the model draws from. *)

\* The rules of the templates that are created.
RuleInputs ==
    { \* every day, three times, from 2025-03-01
      [userId |-> 1, frequency |-> "DAILY", interval |-> NoInt, byWeekDay |-> {},
       byMonthDay |-> NoInt, startDate |-> DayNumber(2025, 3, 1),
       endType |-> "AFTER_COUNT", endDate |-> NoDate, count |-> 3],
      \* every second day from 2025-03-01 until 2025-03-04
      [userId |-> 1, frequency |-> "DAILY", interval |-> 2, byWeekDay |-> {},
       byMonthDay |-> NoInt, startDate |-> DayNumber(2025, 3, 1),
       endType |-> "ON_DATE", endDate |-> DayNumber(2025, 3, 4), count |-> NoInt],
      \* every Monday from 2025-01-06
      [userId |-> 1, frequency |-> "WEEKLY", interval |-> 1, byWeekDay |-> {},
       byMonthDay |-> NoInt, startDate |-> DayNumber(2025, 1, 6),
       endType |-> "NEVER", endDate |-> NoDate, count |-> NoInt],
      \* every second week on MO, WE, FR from Wednesday 2025-01-08, four times
      [userId |-> 1, frequency |-> "WEEKLY", interval |-> 2,
       byWeekDay |-> {"MO", "WE", "FR"},
       byMonthDay |-> NoInt, startDate |-> DayNumber(2025, 1, 8),
       endType |-> "AFTER_COUNT", endDate |-> NoDate, count |-> 4],
      \* every month on the day of 2025-01-31
      [userId |-> 1, frequency |-> "MONTHLY", interval |-> 1, byWeekDay |-> {},
       byMonthDay |-> NoInt, startDate |-> DayNumber(2025, 1, 31),
       endType |-> "NEVER", endDate |-> NoDate, count |-> NoInt],
      \* every month on the 31st from 2025-01-15 until 2025-03-31
      [userId |-> 1, frequency |-> "MONTHLY", interval |-> 1, byWeekDay |-> {},
       byMonthDay |-> 31, startDate |-> DayNumber(2025, 1, 15),
       endType |-> "ON_DATE", endDate |-> DayNumber(2025, 3, 31), count |-> NoInt],
      \* every year on the day of 2024-02-29
      [userId |-> 1, frequency |-> "YEARLY", interval |-> 1, byWeekDay |-> {},
       byMonthDay |-> NoInt, startDate |-> DayNumber(2024, 2, 29),
       endType |-> "NEVER", endDate |-> NoDate, count |-> NoInt] }

\* The ends of the windows that generation is asked for, by frequency.
WindowDates(frequency) ==
    CASE frequency = "DAILY" ->
            {DayNumber(2025, 3, 1), DayNumber(2025, 3, 2), DayNumber(2025, 3, 3),
             DayNumber(2025, 12, 31)}
      [] frequency = "WEEKLY" ->
            {DayNumber(2025, 1, 6), DayNumber(2025, 1, 13), DayNumber(2025, 1, 20),
             DayNumber(2025, 1, 27)}
      [] frequency = "MONTHLY" ->
            {DayNumber(2025, 1, 31), DayNumber(2025, 2, 28), DayNumber(2025, 3, 31),
             DayNumber(2025, 4, 30)}
      [] frequency = "YEARLY" ->
            {DayNumber(2024, 2, 29), DayNumber(2025, 2, 28), DayNumber(2025, 3, 1),
             DayNumber(2028, 2, 29)}

\* The exceptions that are added, by frequency: <<originalDate, action, newDate>>.
ExceptionInputs(frequency) ==
    CASE frequency = "DAILY" ->
            {<<DayNumber(2025, 3, 2), "skip", NoDate>>,
             <<DayNumber(2025, 3, 3), "reschedule", DayNumber(2025, 3, 10)>>}
      [] frequency = "WEEKLY" ->
            {<<DayNumber(2025, 1, 20), "skip", NoDate>>,
             <<DayNumber(2025, 1, 13), "reschedule", DayNumber(2025, 1, 15)>>,
             <<DayNumber(2025, 1, 13), "reschedule", DayNumber(2025, 1, 20)>>,
             <<DayNumber(2025, 1, 20), "reschedule", NoDate>>}
      [] frequency = "MONTHLY" ->
            {<<DayNumber(2025, 2, 28), "skip", NoDate>>,
             <<DayNumber(2025, 3, 31), "skip", NoDate>>,
             <<DayNumber(2025, 1, 31), "reschedule", DayNumber(2025, 2, 28)>>}
      [] frequency = "YEARLY" ->
            {<<DayNumber(2028, 2, 29), "skip", NoDate>>,
             <<DayNumber(2024, 2, 29), "reschedule", DayNumber(2024, 3, 1)>>}

\* The frequency whose inputs are drawn for template id.
InputFrequency(id) ==
    IF id \in DOMAIN recurringTodos THEN recurringTodos[id].frequency ELSE "DAILY"

----------------------------------------------------------------------------
(* The specification: every operation runs alone, from its first read to   *)
(* its last write.                                                         *)

Callers == 1 .. MaxCallers

Idle == [pc |-> "idle"]

\* No HTTP request has been answered yet.
NoReply == [status |-> 0]

Init ==
    /\ recurringTodos = <<>>
    /\ exceptions = {}
    /\ todos = EmptyBag
    /\ clock = 0
    /\ calls = [p \in Callers |-> Idle]
    /\ reply = NoReply
    /\ workspaces = <<>>
    /\ members = {}

\* The service is called directly: no HTTP reply, and the workspace tables
\* are not touched.
Next ==
    \/ \E id \in RecurringTodoIds, input \in RuleInputs :
          Create(id, input) /\ UNCHANGED outsideVars
    \/ \E id \in RecurringTodoIds, userId \in UserIds, isActive \in BOOLEAN :
          Update(id, userId, isActive) /\ UNCHANGED outsideVars
    \/ \E id \in RecurringTodoIds :
          \E fromDate, toDate \in WindowDates(InputFrequency(id)) :
             GenerateInstances(id, fromDate, toDate) /\ UNCHANGED outsideVars
    \/ \E id \in RecurringTodoIds :
          \E x \in ExceptionInputs(InputFrequency(id)) :
             AddException(id, x[1], x[2], x[3]) /\ UNCHANGED outsideVars
    \/ \E e \in exceptions : RemoveException(e) /\ UNCHANGED outsideVars
    \/ Tick /\ UNCHANGED outsideVars

Spec == Init /\ [][Next]_vars

----------------------------------------------------------------------------
(* The concurrent specification: a generateInstances call is suspended at  *)
(* each of its awaits (the read, every insert, the final update), and the  *)
(* operations of other callers run in between.                             *)

\* await prisma.recurringTodo.findUnique(...); the call then runs, without
\* suspending, to its first insert (or returns).
BeginGenerate(p, id, fromDate, toDate) ==
    /\ calls[p] = Idle
    /\ calls' =
          IF ReturnsEarly(id) THEN calls
          ELSE LET recurringTodo == FindUnique(todos, id, fromDate, toDate)
                   occurrences   == GetOccurrences(recurringTodo.row, fromDate, toDate)
               IN  [calls EXCEPT ![p] =
                       [pc            |-> "loop",
                        recurringTodo |-> recurringTodo,
                        pending       |-> MissingDates(recurringTodo, occurrences)]]
    /\ UNCHANGED <<recurringTodos, exceptions, todos, clock>>

\* await prisma.todo.create(...) for the next missing occurrence.
CreateNext(p) ==
    /\ calls[p] # Idle
    /\ calls[p].pending # <<>>
    /\ todos' = TodoInsert(todos, TodoCreateData(calls[p].recurringTodo,
                                                 Head(calls[p].pending)))
    /\ calls' = [calls EXCEPT ![p].pending = Tail(calls[p].pending)]
    /\ UNCHANGED <<recurringTodos, exceptions, clock>>

\* await prisma.recurringTodo.update({lastGenerated}); the call returns.
FinishGenerate(p) ==
    /\ calls[p] # Idle
    /\ calls[p].pending = <<>>
    /\ recurringTodos' = SetLastGenerated(recurringTodos, calls[p].recurringTodo.id)
    /\ calls' = [calls EXCEPT ![p] = Idle]
    /\ UNCHANGED <<exceptions, todos, clock>>

\* The inputs of the concurrent specification: the template "every Monday
\* from 2025-01-06", windows between two of its occurrences, and an exception
\* on each of the two.
ConcRuleInputs ==
    {r \in RuleInputs : r.frequency = "WEEKLY" /\ r.interval = 1}

ConcWindowDates == {DayNumber(2025, 1, 13), DayNumber(2025, 1, 20)}

ConcExceptionInputs ==
    {<<DayNumber(2025, 1, 20), "skip", NoDate>>,
     <<DayNumber(2025, 1, 13), "reschedule", DayNumber(2025, 1, 15)>>}

ConcNext ==
    \/ \E id \in RecurringTodoIds, input \in ConcRuleInputs :
          Create(id, input) /\ UNCHANGED outsideVars
    \/ \E id \in RecurringTodoIds, userId \in UserIds, isActive \in BOOLEAN :
          Update(id, userId, isActive) /\ UNCHANGED outsideVars
    \/ \E p \in Callers, id \in RecurringTodoIds :
          \E fromDate, toDate \in ConcWindowDates :
             BeginGenerate(p, id, fromDate, toDate) /\ UNCHANGED outsideVars
    \/ \E p \in Callers : CreateNext(p) /\ UNCHANGED outsideVars
    \/ \E p \in Callers : FinishGenerate(p) /\ UNCHANGED outsideVars
    \/ \E id \in RecurringTodoIds :
          \E x \in ConcExceptionInputs :
             AddException(id, x[1], x[2], x[3]) /\ UNCHANGED outsideVars
    \/ \E e \in exceptions : RemoveException(e) /\ UNCHANGED outsideVars
    \/ Tick /\ UNCHANGED outsideVars

ConcSpec == Init /\ [][ConcNext]_vars

----------------------------------------------------------------------------
(* Properties. *)

\* The rows of Todo generated from template id.
InstancesOf(id) == {t \in BagToSet(todos) : t.recurringTodoId = id}

InstanceDates(id) == {t.recurringDate : t \in InstancesOf(id)}

\* The windows that generation is asked for on template id.
Windows(id) ==
    {w \in WindowDates(InputFrequency(id)) \X WindowDates(InputFrequency(id)) :
        w[1] <= w[2]}

\* The occurrences of template id in [fromDate, toDate], as a set.
OccurrenceDates(id, fromDate, toDate) ==
    SeqRange(GetOccurrences(recurringTodos[id], fromDate, toDate))

\* C1: whatever generateInstances calls have run one after another, with
\* whatever windows, the Todo table holds at most one row per
\* (recurringTodoId, recurringDate).
C1_OneInstancePerDate ==
    \A t \in BagToSet(todos) :
        t.recurringTodoId # NoId =>
            InstanceCount(todos, t.recurringTodoId, t.recurringDate) <= 1

\* C1, witness: a template has several instances, and a window whose
\* occurrences are all materialized already lies over them, so that a further
\* call over it overlaps the earlier ones.
C1_Witness ==
    \E id \in DOMAIN recurringTodos :
        /\ recurringTodos[id].isActive
        /\ Cardinality(InstanceDates(id)) >= 3
        /\ \E w \in Windows(id) :
              /\ Cardinality(OccurrenceDates(id, w[1], w[2])) >= 2
              /\ OccurrenceDates(id, w[1], w[2]) \subseteq InstanceDates(id)

\* C2: when generateInstances calls for one template interleave, the Todo
\* table still holds at most one row per (recurringTodoId, recurringDate).
C2_OneInstancePerDateConcurrently ==
    \A id \in DOMAIN recurringTodos :
        \A date \in InstanceDates(id) : InstanceCount(todos, id, date) = 1

\* C3: a generateInstances call made right after the same call, from any
\* reachable state, leaves the Todo table as the first call left it.
C3_SecondCallCreatesNothing ==
    \A id \in RecurringTodoIds :
        \A w \in Windows(id) :
            LET first == GenerateInstancesTodos(todos, id, w[1], w[2])
            IN  GenerateInstancesTodos(first, id, w[1], w[2]) = first

\* C3, witness: the Todo table is what a call that created instances left
\* (all the occurrences of a window that are not skipped are materialized and
\* lastGenerated is set), and the same call again creates nothing.
C3_Witness ==
    \E id \in DOMAIN recurringTodos :
        /\ recurringTodos[id].isActive
        /\ recurringTodos[id].lastGenerated # NoDate
        /\ \E w \in Windows(id) :
              /\ Cardinality(OccurrenceDates(id, w[1], w[2]) \cap InstanceDates(id)) >= 2
              /\ GenerateInstancesTodos(todos, id, w[1], w[2]) = todos

\* The rows that a step adds to the Todo table.
AddedRows == {t \in BagToSet(todos') : CopiesIn(t, todos') > CopiesIn(t, todos)}

\* C4: for a < b < c, from any reachable state, generating over [a, c] and
\* generating over [a, b] and then over [b, c] leave the same Todo table, with
\* an occurrence at b materialized once.
C4_WindowComposition ==
    \A id \in RecurringTodoIds :
        \A a, b, c \in WindowDates(InputFrequency(id)) :
            (a < b /\ b < c) =>
                LET whole == GenerateInstancesTodos(todos, id, a, c)
                    left  == GenerateInstancesTodos(todos, id, a, b)
                    both  == GenerateInstancesTodos(left, id, b, c)
                IN  /\ both = whole
                    /\ InstanceCount(todos, id, b) <= 1
                          => InstanceCount(both, id, b) <= 1

\* C4, witness: the boundary b of two windows is an occurrence that has an
\* instance, there are instances on both sides of it, and generating over
\* [a, c] finds nothing left to create.
C4_Witness ==
    \E id \in DOMAIN recurringTodos :
        \E a, b, c \in WindowDates(InputFrequency(id)) :
            /\ a < b /\ b < c
            /\ recurringTodos[id].isActive
            /\ b \in OccurrenceDates(id, a, c)
            /\ InstanceCount(todos, id, b) = 1
            /\ \E d \in InstanceDates(id) : d < b
            /\ \E d \in InstanceDates(id) : d > b
            /\ GenerateInstancesTodos(todos, id, a, c) = todos

\* C5: in no step does a date that has a stored skip exception get an
\* instance; and a generateInstances call on an active template leaves every
\* occurrence of its window that has no skip exception with an instance.
C5_SkippedDateIsNeverMaterialized ==
    [][/\ \A e \in exceptions :
             e.action = "skip" =>
                 InstanceCount(todos', e.recurringTodoId, e.originalDate)
                     <= InstanceCount(todos, e.recurringTodoId, e.originalDate)
       /\ \A id \in DOMAIN recurringTodos :
             \A w \in Windows(id) :
                 (recurringTodos[id].isActive /\ GenerateInstances(id, w[1], w[2])) =>
                     \A d \in OccurrenceDates(id, w[1], w[2]) :
                         (\A e \in exceptions :
                             ~(/\ e.recurringTodoId = id
                               /\ e.originalDate = d
                               /\ e.action = "skip"))
                             => InstanceCount(todos', id, d) >= 1
      ]_vars

\* C5, witness: the template "every Monday from 2025-01-06" has a skip
\* exception on 2025-01-20, instances on 01-06, 01-13 and 01-27 and none on
\* 01-20.
C5_Witness ==
    \E id \in DOMAIN recurringTodos :
        /\ recurringTodos[id].frequency = "WEEKLY"
        /\ recurringTodos[id].startDate = DayNumber(2025, 1, 6)
        /\ \E e \in exceptions :
              /\ e.recurringTodoId = id
              /\ e.originalDate = DayNumber(2025, 1, 20)
              /\ e.action = "skip"
        /\ InstanceDates(id) = {DayNumber(2025, 1, 6), DayNumber(2025, 1, 13),
                                DayNumber(2025, 1, 27)}

\* C6: every row that a step adds for a template has, as recurringDate, an
\* occurrence of the template's rule, and, when a reschedule exception with a
\* newDate is stored for that occurrence, that newDate as dueDate.
C6_RescheduledInstance ==
    [][\A t \in AddedRows :
           \A id \in DOMAIN recurringTodos :
               t.recurringTodoId = id =>
                   /\ t.recurringDate
                         \in OccurrenceDates(id, t.recurringDate, t.recurringDate)
                   /\ \A e \in exceptions :
                         (/\ e.recurringTodoId = id
                          /\ e.originalDate = t.recurringDate
                          /\ e.action = "reschedule"
                          /\ e.newDate # NoDate) => t.dueDate = e.newDate
      ]_vars

\* C6, witness: the occurrence of 2025-01-13, rescheduled to 2025-01-15, has
\* been materialized.
C6_Witness ==
    \E t \in BagToSet(todos) :
        /\ t.recurringTodoId # NoId
        /\ t.recurringDate = DayNumber(2025, 1, 13)
        /\ t.dueDate = DayNumber(2025, 1, 15)
        /\ \E e \in exceptions :
              /\ e.recurringTodoId = t.recurringTodoId
              /\ e.originalDate = t.recurringDate
              /\ e.action = "reschedule"
              /\ e.newDate = t.dueDate

\* C7: a step that finds a template inactive and leaves it inactive changes
\* neither the template's rows of Todo nor its lastGenerated.
C7_InactiveIsNoop ==
    [][\A id \in DOMAIN recurringTodos :
           (/\ ~recurringTodos[id].isActive
            /\ id \in DOMAIN recurringTodos'
            /\ ~recurringTodos'[id].isActive) =>
               /\ recurringTodos'[id].lastGenerated = recurringTodos[id].lastGenerated
               /\ \A t \in BagToSet(todos) \cup BagToSet(todos') :
                     t.recurringTodoId = id => CopiesIn(t, todos') = CopiesIn(t, todos)
      ]_vars

\* C7, witness: an inactive template that has instances from before its
\* deactivation, occurrences that are not materialized, and a lastGenerated
\* older than the clock, so that a call that wrote would show.
C7_Witness ==
    \E id \in DOMAIN recurringTodos :
        /\ ~recurringTodos[id].isActive
        /\ InstanceDates(id) # {}
        /\ recurringTodos[id].lastGenerated # NoDate
        /\ recurringTodos[id].lastGenerated < clock
        /\ \E w \in Windows(id) :
              ~(OccurrenceDates(id, w[1], w[2]) \subseteq InstanceDates(id))

\* The number of rows of Todo generated from template id.
InstanceTotal(id) == BagCount(todos, InstancesOf(id))

\* The occurrences in [fromDate, toDate] of the rule of template id without
\* its end condition.
UnendingOccurrenceDates(id, fromDate, toDate) ==
    SeqRange(GetOccurrences([recurringTodos[id] EXCEPT !.endType = "NEVER"],
                            fromDate, toDate))

\* C8: for a template that ends AFTER_COUNT n, every instance's recurringDate
\* is one of the first n occurrences of the rule counted from startDate, and
\* the template has at most n instances.
C8_CountIsGlobal ==
    \A id \in DOMAIN recurringTodos :
        LET rt == recurringTodos[id] IN
        (rt.endType = "AFTER_COUNT" /\ rt.count # NoInt) =>
            /\ InstanceTotal(id) <= rt.count
            /\ \A d \in InstanceDates(id) :
                  LET upTo == UnendingOccurrenceDates(id, rt.startDate, d)
                  IN  d \in upTo /\ Cardinality(upTo) <= rt.count

\* C8, witness: the template "every day from 2025-03-01, three times" has its
\* instances of 03-01, 03-02 and 03-03, and a call with a window that starts
\* after startDate and runs through 2025-12-31 creates nothing more.
C8_Witness ==
    \E id \in DOMAIN recurringTodos :
        /\ recurringTodos[id].isActive
        /\ recurringTodos[id].frequency = "DAILY"
        /\ recurringTodos[id].endType = "AFTER_COUNT"
        /\ recurringTodos[id].count = 3
        /\ InstanceDates(id) = {DayNumber(2025, 3, 1), DayNumber(2025, 3, 2),
                                DayNumber(2025, 3, 3)}
        /\ InstanceTotal(id) = 3
        /\ GenerateInstancesTodos(todos, id, DayNumber(2025, 3, 2),
                                  DayNumber(2025, 12, 31)) = todos

\* C9: for a template that ends ON_DATE, no instance has a recurringDate
\* later than endDate.
C9_NothingAfterEndDate ==
    \A id \in DOMAIN recurringTodos :
        LET rt == recurringTodos[id] IN
        (rt.endType = "ON_DATE" /\ rt.endDate # NoDate) =>
            \A d \in InstanceDates(id) : d <= rt.endDate

\* C9, witness: the template "every second day from 2025-03-01 until
\* 2025-03-04" has its instances of 03-01 and 03-03, and a call with a window
\* through 2025-12-31, which holds rule days after endDate, creates nothing
\* more.
C9_Witness ==
    \E id \in DOMAIN recurringTodos :
        /\ recurringTodos[id].isActive
        /\ recurringTodos[id].endType = "ON_DATE"
        /\ recurringTodos[id].endDate = DayNumber(2025, 3, 4)
        /\ InstanceDates(id) = {DayNumber(2025, 3, 1), DayNumber(2025, 3, 3)}
        /\ DayNumber(2025, 3, 5) \in
              UnendingOccurrenceDates(id, DayNumber(2025, 3, 1), DayNumber(2025, 3, 5))
        /\ GenerateInstancesTodos(todos, id, DayNumber(2025, 3, 1),
                                  DayNumber(2025, 12, 31)) = todos

\* The months that C10 looks at: the month of startDate and the MonthsAhead
\* months after it.
MonthsAhead == 3

\* The day of the month a MONTHLY template is anchored on.
AnchorDay(rt) ==
    IF rt.byMonthDay # NoInt THEN rt.byMonthDay ELSE DayOfMonth(rt.startDate)

\* The occurrences of template id in the month that is k months after the
\* month of its startDate.
OccurrencesInMonth(id, k) ==
    LET mi == MonthIndex(recurringTodos[id].startDate) + k
        y  == 2024 + (mi \div 12)
        m  == (mi % 12) + 1
    IN  OccurrenceDates(id, DayNumber(y, m, 1), DayNumber(y, m, DaysInMonth(y, m)))

\* The last day of that month.
LastDayOfMonth(id, k) ==
    LET mi == MonthIndex(recurringTodos[id].startDate) + k
        y  == 2024 + (mi \div 12)
        m  == (mi % 12) + 1
    IN  DayNumber(y, m, DaysInMonth(y, m))

\* Whether that month is a month of the rule, within its lifetime, that does
\* not have the anchor day.
MonthLacksAnchorDay(id, k) ==
    LET rt == recurringTodos[id]
        mi == MonthIndex(rt.startDate) + k
    IN  /\ rt.frequency = "MONTHLY"
        /\ k % rt.interval = 0
        /\ AnchorDay(rt) > DaysInMonth(2024 + (mi \div 12), (mi % 12) + 1)
        /\ LastDayOfMonth(id, k) >= rt.startDate
        /\ ~(rt.endType = "ON_DATE" /\ rt.endDate # NoDate
                /\ LastDayOfMonth(id, k) > rt.endDate)
        /\ rt.endType # "AFTER_COUNT"

\* C10, as claimed: in a month of a MONTHLY rule that does not have the anchor
\* day, the occurrence falls on the month's last day (2025-02-28 for a
\* template anchored on the 31st).
C10_ClampedToLastDay ==
    \A id \in DOMAIN recurringTodos :
        \A k \in 0 .. MonthsAhead :
            MonthLacksAnchorDay(id, k) =>
                LastDayOfMonth(id, k) \in OccurrencesInMonth(id, k)

\* C10, as amended: a month of a MONTHLY rule that does not have the anchor
\* day has no occurrence at all, and every instance of a MONTHLY template
\* falls on the anchor day of its month.
C10_MonthWithoutAnchorDayIsSkipped ==
    \A id \in DOMAIN recurringTodos :
        recurringTodos[id].frequency = "MONTHLY" =>
            /\ \A k \in 0 .. MonthsAhead :
                  MonthLacksAnchorDay(id, k) => OccurrencesInMonth(id, k) = {}
            /\ \A d \in InstanceDates(id) :
                  DayOfMonth(d) = AnchorDay(recurringTodos[id])

\* C10, witness: a template anchored on the 31st has its instances of
\* 2025-01-31 and 2025-03-31 and none in between, and a call over
\* [2025-01-31, 2025-03-31] creates nothing more.
C10_Witness ==
    \E id \in DOMAIN recurringTodos :
        /\ recurringTodos[id].isActive
        /\ recurringTodos[id].frequency = "MONTHLY"
        /\ AnchorDay(recurringTodos[id]) = 31
        /\ MonthLacksAnchorDay(id, 1)
        /\ exceptions = {}
        /\ InstanceDates(id) = {DayNumber(2025, 1, 31), DayNumber(2025, 3, 31)}
        /\ GenerateInstancesTodos(todos, id, DayNumber(2025, 1, 31),
                                  DayNumber(2025, 3, 31)) = todos

----------------------------------------------------------------------------
(* The window and the order of generation. *)

\* Whether a sequence of dates strictly ascends.
IsAscending(dates) ==
    \A i \in 1 .. Len(dates) - 1 : dates[i] < dates[i + 1]

\* The rows that generateInstances(id, fromDate, toDate) adds to the table.
CreatedRows(id, fromDate, toDate) ==
    LET after == GenerateInstancesTodos(todos, id, fromDate, toDate)
    IN  {t \in BagToSet(after) : CopiesIn(t, after) > CopiesIn(t, todos)}

\* C11: every instance that generateInstances(id, fromDate, toDate) creates
\* has fromDate <= recurringDate <= toDate and recurringDate >= startDate;
\* the occurrences are listed, and the missing ones created, in ascending
\* order of date.
C11_InstancesInsideWindowAscending ==
    \A id \in DOMAIN recurringTodos :
        \A fromDate, toDate \in WindowDates(InputFrequency(id)) :
            LET recurringTodo == FindUnique(todos, id, fromDate, toDate)
                occurrences   == GetOccurrences(recurringTodo.row, fromDate, toDate)
            IN  /\ IsAscending(occurrences)
                /\ IsAscending(MissingDates(recurringTodo, occurrences))
                /\ \A t \in CreatedRows(id, fromDate, toDate) :
                        /\ t.recurringTodoId = id
                        /\ fromDate <= t.recurringDate
                        /\ t.recurringDate <= toDate
                        /\ t.recurringDate >= recurringTodos[id].startDate

\* C11, witness: a template has occurrences before the window begins (or
\* the window begins before startDate) and after it ends, and a call over
\* the window has stored its instances, more than one, and none outside it.
C11_Witness ==
    \E id \in DOMAIN recurringTodos :
        \E fromDate, toDate \in WindowDates(InputFrequency(id)) :
            /\ fromDate < toDate
            /\ toDate - recurringTodos[id].startDate <= 31
            /\ LET start == recurringTodos[id].startDate
                   all   == UnendingOccurrenceDates(id, start, toDate + 14)
               IN  /\ \E d \in all : d > toDate
                   /\ Cardinality(InstanceDates(id)) > 1
                   /\ InstanceDates(id) =
                         {d \in all : fromDate <= d /\ d <= toDate}
                   /\ \/ fromDate < start
                      \/ \E d \in all : d < fromDate
                   /\ CreatedRows(id, fromDate, toDate) = {}

----------------------------------------------------------------------------
(* WEEKLY rules with byWeekDay. *)

\* The weeks after that of startDate that C12 is checked on.
WeeksAhead == 6

\* The lists of weekdays and the intervals that C12 is checked on, besides
\* those of the stored templates.
WeekDayLists == {{"MO", "WE", "FR"}, {"SU"}, {"TU", "SA", "SU"}}
WeekIntervals == 1 .. 3

\* The Monday of the week of a date.
WeekOf(n) == n - Weekday(n)

\* Whether date d is a listed weekday of an active week of the template and
\* not before its startDate.
IsListedDayOfActiveWeek(rt, d) ==
    /\ d >= rt.startDate
    /\ \E day \in rt.byWeekDay : WEEKDAY_MAP[day] = Weekday(d)
    /\ (WeekOf(d) - WeekOf(rt.startDate)) % (7 * rt.interval) = 0

\* C12: the occurrences of a WEEKLY template with byWeekDay, its end
\* condition left aside, are exactly the listed weekdays, from startDate on,
\* of the weeks that are a multiple of interval weeks after the week of
\* startDate; whatever the list and the interval.  The occurrences that the
\* end condition leaves, and the instances, are among them.
C12_ListedWeekdaysOfActiveWeeks ==
    \A id \in DOMAIN recurringTodos :
        LET rt == recurringTodos[id]
            lo == WeekOf(rt.startDate) - 7
            hi == WeekOf(rt.startDate) + 7 * WeeksAhead + 6
        IN  (rt.frequency = "WEEKLY" /\ rt.byWeekDay # {}) =>
              /\ \A days \in WeekDayLists \cup {rt.byWeekDay} :
                 \A interval \in WeekIntervals \cup {rt.interval} :
                    LET v == [rt EXCEPT !.byWeekDay = days,
                                        !.interval = interval,
                                        !.endType = "NEVER"]
                    IN  SeqRange(GetOccurrences(v, lo, hi)) =
                           {d \in lo .. hi : IsListedDayOfActiveWeek(v, d)}
              /\ \A d \in OccurrenceDates(id, lo, hi) \cup InstanceDates(id) :
                    IsListedDayOfActiveWeek(rt, d)

\* C12, witness: a template "every second week on MO, WE, FR" that starts on
\* a Wednesday has instances in the week of startDate and two weeks later,
\* none on the Monday before startDate and none in the week in between,
\* though generation was asked for both.
C12_Witness ==
    \E id \in DOMAIN recurringTodos :
        LET rt == recurringTodos[id] IN
        /\ rt.frequency = "WEEKLY" /\ rt.interval = 2
        /\ rt.byWeekDay = {"MO", "WE", "FR"}
        /\ Weekday(rt.startDate) = WEEKDAY_MAP["WE"]
        /\ \E d \in InstanceDates(id) : WeekOf(d) = WeekOf(rt.startDate)
        /\ \E d \in InstanceDates(id) : WeekOf(d) = WeekOf(rt.startDate) + 14
        /\ \E w \in Windows(id) :
              /\ w[1] = WeekOf(rt.startDate)
              /\ w[2] >= WeekOf(rt.startDate) + 14
              /\ CreatedRows(id, w[1], w[2]) = {}
        /\ WeekOf(rt.startDate) \notin InstanceDates(id)
        /\ \A d \in InstanceDates(id) : WeekOf(d) # WeekOf(rt.startDate) + 7

----------------------------------------------------------------------------
(* delete(id, userId) and the foreign keys of the schema. *)

\* The Todo table once the rows that refer to template id have lost their
\* reference (Todo_recurringTodoId_fkey ... ON DELETE SET NULL): the rows stay.
SetNullOnDelete(store, id) ==
    LET rows      == BagToSet(store)
        Orphan(t) == IF t.recurringTodoId = id
                     THEN [t EXCEPT !.recurringTodoId = NoId] ELSE t
    IN  [r \in {Orphan(t) : t \in rows} |->
            BagCount(store, {t \in rows : Orphan(t) = r})]

\* Whether deleteMany({where: {id, userId}}) finds a row.
DeleteFinds(id, userId) ==
    id \in DOMAIN recurringTodos /\ recurringTodos[id].userId = userId

\* delete(id, userId): deleteMany removes the row of the user; the exceptions
\* of the row go with it (RecurrenceException_recurringTodoId_fkey ... ON
\* DELETE CASCADE), the Todo rows are kept without their reference.
Delete(id, userId) ==
    /\ recurringTodos' =
          IF DeleteFinds(id, userId)
          THEN [i \in DOMAIN recurringTodos \ {id} |-> recurringTodos[i]]
          ELSE recurringTodos
    /\ exceptions' =
          IF DeleteFinds(id, userId)
          THEN {e \in exceptions : e.recurringTodoId # id}
          ELSE exceptions
    /\ todos' =
          IF DeleteFinds(id, userId) THEN SetNullOnDelete(todos, id) ELSE todos
    /\ UNCHANGED <<clock, calls>>

----------------------------------------------------------------------------
(* The HTTP routes of /api/recurring-todos.  A handler runs from its first *)
(* read to its reply; the authenticated user is req.user.  All requests    *)
(* arrive on the same day.                                                 *)

\* The users that send requests.
RouteUserIds == {1, 2}

\* Generation at creation covers this many days from now.
InitialDays == 90

\* POST / is not sent once the Todo table holds more rows than this.
MaxStoredTodos == 6

RecurrenceFrequency == {"DAILY", "WEEKLY", "MONTHLY", "YEARLY"}

ExceptionActions == {"skip", "reschedule"}

\* The error replies of the handlers.
BadRequest(error) == [status |-> 400, error |-> error]
NotFound == [status |-> 404, error |-> "Recurring todo not found"]
InternalError == [status |-> 500, error |-> "Internal server error"]

\* What generateInstances returns to the handler that awaits it: nothing
\* (Promise<void>); a value that is no number of rows.
Void == 0 - 1

\* The number of rows that a call would have added.
GenerateInstancesResultCount(store, id, fromDate, toDate) ==
    BagCardinality(GenerateInstancesTodos(store, id, fromDate, toDate))
        - BagCardinality(store)

GenerateInstancesResult(store, id, fromDate, toDate) == Void

\* A rule that POST / would have to turn down: a day of the month outside
\* 1..31, a negative interval, or an end "on date" without the date.
IsMalformedRule(rule) ==
    \/ rule.frequency = "MONTHLY" /\ rule.byMonthDay # NoInt
          /\ (rule.byMonthDay < 1 \/ rule.byMonthDay > 31)
    \/ rule.interval < 0
    \/ rule.endType = "ON_DATE" /\ rule.endDate = NoDate

\* The validation of POST /: title, frequency and startDate are present and
\* frequency is one of the enum (the priority is not modelled).
CreateBodyIsInvalid(body) ==
    \/ ~body.title \/ body.frequency = "" \/ body.startDate = NoDate
    \/ body.frequency \notin RecurrenceFrequency

\* The input that POST / hands to create().
CreateInput(userId, body) ==
    [userId     |-> userId,
     frequency  |-> body.frequency,
     interval   |-> IF body.interval = NoInt THEN 1 ELSE body.interval,
     byWeekDay  |-> body.byWeekDay,
     byMonthDay |-> body.byMonthDay,
     startDate  |-> body.startDate,
     endType    |-> IF body.endType = "" THEN "NEVER" ELSE body.endType,
     endDate    |-> body.endDate,
     count      |-> body.count]

\* POST /: create the template, generate its instances of the next 90 days,
\* reply 201.  The new row has no instances and no exceptions yet.
PostCreate(userId, id, body) ==
    IF CreateBodyIsInvalid(body)
    THEN /\ reply' = BadRequest(
                        IF ~body.title \/ body.frequency = ""
                                       \/ body.startDate = NoDate
                        THEN "Missing required fields: title, frequency, startDate"
                        ELSE "Invalid frequency")
         /\ UNCHANGED serviceVars
    ELSE /\ id \notin DOMAIN recurringTodos
         /\ BagCardinality(todos) <= MaxStoredTodos
         /\ LET row   == NewRecurringTodo(CreateInput(userId, body))
                found == [id |-> id, row |-> row,
                          exceptions |-> {}, instances |-> {}]
                occurrences == GetOccurrences(row, clock, clock + InitialDays)
            IN  /\ recurringTodos' =
                      [i \in DOMAIN recurringTodos \cup {id} |->
                          IF i = id THEN [row EXCEPT !.lastGenerated = clock]
                          ELSE recurringTodos[i]]
                /\ todos' = CreateInstances(todos, found,
                                            MissingDates(found, occurrences))
         /\ reply' = [status |-> 201]
         /\ UNCHANGED <<exceptions, clock, calls>>

\* PUT /:id with {isActive}: 404 when update() finds no row of the user.
PutUpdate(userId, id, isActive) ==
    /\ Update(id, userId, isActive)
    /\ reply' = IF id \in DOMAIN recurringTodos
                    /\ recurringTodos[id].userId = userId
                 THEN [status |-> 200] ELSE NotFound

\* DELETE /:id: 404 when delete() removed nothing.
DeleteRoute(userId, id) ==
    /\ Delete(id, userId)
    /\ reply' = IF DeleteFinds(id, userId)
                 THEN [status |-> 204] ELSE NotFound

\* A reply of POST /:id/generate tells nothing but that the call returned.
GenerateReply(returned) ==
    [status |-> 200, message |-> "Instances generated successfully",
     returned |-> returned]

\* A handler that replies 404 when there is no such template.
PostGenerateReplyNotFound(id, fromDate, toDate) ==
    IF fromDate = NoDate \/ toDate = NoDate
    THEN BadRequest("Missing required fields: fromDate, toDate")
    ELSE IF id \notin DOMAIN recurringTodos THEN NotFound
    ELSE GenerateReply(GenerateInstancesResult(todos, id, fromDate, toDate))

\* A handler whose service call throws when there is no such template.
PostGenerateReplyThrowsWhenMissing(id, fromDate, toDate) ==
    IF fromDate = NoDate \/ toDate = NoDate
    THEN BadRequest("Missing required fields: fromDate, toDate")
    ELSE IF id \notin DOMAIN recurringTodos THEN InternalError
    ELSE GenerateReply(GenerateInstancesResult(todos, id, fromDate, toDate))

\* The reply of POST /:id/generate: 400 without fromDate or toDate, else
\* what follows the awaited generateInstances, which does not throw.
PostGenerateReply(id, fromDate, toDate) ==
    IF fromDate = NoDate \/ toDate = NoDate
    THEN BadRequest("Missing required fields: fromDate, toDate")
    ELSE GenerateReply(GenerateInstancesResult(todos, id, fromDate, toDate))

\* POST /:id/generate with {fromDate, toDate}.
PostGenerate(userId, id, fromDate, toDate) ==
    /\ reply' = PostGenerateReply(id, fromDate, toDate)
    /\ IF fromDate = NoDate \/ toDate = NoDate
       THEN UNCHANGED serviceVars
       ELSE GenerateInstances(id, fromDate, toDate)

\* A validation of POST /:id/exceptions that does not ask for newDate.
ExceptionBodyIsInvalidLax(originalDate, action, newDate) ==
    originalDate = NoDate \/ action = "" \/ action \notin ExceptionActions

\* The validation of POST /:id/exceptions.
ExceptionBodyIsInvalid(originalDate, action, newDate) ==
    \/ originalDate = NoDate \/ action = "" \/ action \notin ExceptionActions
    \/ action = "reschedule" /\ newDate = NoDate

\* POST /:id/exceptions: 400 for an invalid body, 500 when the insert is
\* rejected, else 201.
PostException(userId, id, originalDate, action, newDate) ==
    IF ExceptionBodyIsInvalid(originalDate, action, newDate)
    THEN /\ reply' = BadRequest(
                        IF ExceptionBodyIsInvalidLax(originalDate, action, newDate)
                        THEN "Invalid exception data"
                        ELSE "newDate is required for reschedule action")
         /\ UNCHANGED serviceVars
    ELSE /\ AddException(id, originalDate, action, newDate)
         /\ reply' = IF exceptions' # exceptions
                      THEN [status |-> 201] ELSE InternalError

\* The bodies of POST /.
CreateBodies ==
    { \* every fourth week from Monday 2024-01-01
      [title |-> TRUE, frequency |-> "WEEKLY", interval |-> 4, byWeekDay |-> {},
       byMonthDay |-> NoInt, startDate |-> DayNumber(2024, 1, 1),
       endType |-> "", endDate |-> NoDate, count |-> NoInt],
      \* every month on the 32nd
      [title |-> TRUE, frequency |-> "MONTHLY", interval |-> NoInt, byWeekDay |-> {},
       byMonthDay |-> 32, startDate |-> DayNumber(2024, 1, 15),
       endType |-> "NEVER", endDate |-> NoDate, count |-> NoInt],
      \* every fourth week until a date that is not given
      [title |-> TRUE, frequency |-> "WEEKLY", interval |-> 4, byWeekDay |-> {},
       byMonthDay |-> NoInt, startDate |-> DayNumber(2024, 1, 1),
       endType |-> "ON_DATE", endDate |-> NoDate, count |-> NoInt],
      \* no title
      [title |-> FALSE, frequency |-> "WEEKLY", interval |-> 4, byWeekDay |-> {},
       byMonthDay |-> NoInt, startDate |-> DayNumber(2024, 1, 1),
       endType |-> "", endDate |-> NoDate, count |-> NoInt],
      \* a frequency that is not one
      [title |-> TRUE, frequency |-> "HOURLY", interval |-> 4, byWeekDay |-> {},
       byMonthDay |-> NoInt, startDate |-> DayNumber(2024, 1, 1),
       endType |-> "", endDate |-> NoDate, count |-> NoInt] }

\* The fromDate and toDate of POST /:id/generate (NoDate: not given).
RouteWindowDates == {DayNumber(2024, 4, 1), DayNumber(2024, 5, 31), NoDate}

\* The bodies of POST /:id/exceptions: <<originalDate, action, newDate>>.
ExceptionBodies ==
    {<<DayNumber(2024, 4, 22), "skip", NoDate>>,
     <<DayNumber(2024, 5, 20), "reschedule", DayNumber(2024, 5, 22)>>,
     <<DayNumber(2024, 5, 20), "reschedule", NoDate>>,
     <<DayNumber(2024, 5, 20), "postpone", DayNumber(2024, 5, 22)>>,
     <<NoDate, "skip", NoDate>>}

RouteNext ==
    \/ \E userId \in RouteUserIds, id \in RecurringTodoIds, body \in CreateBodies :
          PostCreate(userId, id, body) /\ UNCHANGED <<workspaces, members>>
    \/ \E userId \in RouteUserIds, id \in RecurringTodoIds, isActive \in BOOLEAN :
          PutUpdate(userId, id, isActive) /\ UNCHANGED <<workspaces, members>>
    \/ \E userId \in RouteUserIds, id \in RecurringTodoIds :
          DeleteRoute(userId, id) /\ UNCHANGED <<workspaces, members>>
    \/ \E userId \in RouteUserIds, id \in RecurringTodoIds :
          \E fromDate, toDate \in RouteWindowDates :
             PostGenerate(userId, id, fromDate, toDate)
                /\ UNCHANGED <<workspaces, members>>
    \/ \E userId \in RouteUserIds, id \in RecurringTodoIds :
          \E x \in ExceptionBodies :
             PostException(userId, id, x[1], x[2], x[3])
                /\ UNCHANGED <<workspaces, members>>

RouteSpec == Init /\ [][RouteNext]_vars

----------------------------------------------------------------------------
(* Properties of the routes. *)

\* The dates that POST /:id/generate is sent with, when it has both.
GivenWindowDates == RouteWindowDates \ {NoDate}

\* C13: POST /:id/generate for an id that has no stored template is not an
\* error: the service call returns, nothing is written, and the reply is
\* 200 "Instances generated successfully".
C13_MissingTemplateIsSilentNoop ==
    [][\A userId \in RouteUserIds, id \in RecurringTodoIds :
          \A fromDate, toDate \in GivenWindowDates :
              (id \notin DOMAIN recurringTodos
                  /\ PostGenerate(userId, id, fromDate, toDate)) =>
                 /\ reply'.status = 200
                 /\ reply'.message = "Instances generated successfully"
                 /\ UNCHANGED serviceVars
      ]_vars

\* C13 as the specification words it: generation for an id that has no
\* stored template is answered with an error.
C13_MissingTemplateIsReportedAsError ==
    [][\A userId \in RouteUserIds, id \in RecurringTodoIds :
          \A fromDate, toDate \in GivenWindowDates :
              (id \notin DOMAIN recurringTodos
                  /\ PostGenerate(userId, id, fromDate, toDate)) =>
                 reply'.status \in {404, 500}
      ]_vars

\* C13, witness: a template was created, has instances, and was deleted;
\* the last request asked to generate for its id and got the reply 200.
C13_Witness ==
    /\ DOMAIN recurringTodos = {}
    /\ todos # EmptyBag
    /\ reply = GenerateReply(Void)

C17_NoMalformedTemplateStored ==
    \A id \in DOMAIN recurringTodos : ~IsMalformedRule(recurringTodos[id])

\* C18: DELETE /:id of a template of the user removes the rows of Todo
\* generated from it and its exceptions.
C18_DeleteRemovesInstancesAndExceptions ==
    [][\A userId \in RouteUserIds, id \in RecurringTodoIds :
          (DeleteFinds(id, userId) /\ DeleteRoute(userId, id)) =>
             /\ \A e \in exceptions' : e.recurringTodoId # id
             /\ InstanceTotal(id)' = 0
             /\ BagCardinality(todos') =
                   BagCardinality(todos) - InstanceTotal(id)
      ]_vars

----------------------------------------------------------------------------
(* The exceptions of a template. *)

\* Whether template id has a stored exception for originalDate.
HasException(id, originalDate) ==
    \E e \in exceptions : e.recurringTodoId = id /\ e.originalDate = originalDate

\* C15: no two stored exceptions share (recurringTodoId, originalDate), and
\* addException for a pair that has an exception stores nothing and leaves
\* the stored exception as it is.
C15_OneExceptionPerDate ==
    [][/\ \A e1, e2 \in exceptions' :
             (e1.recurringTodoId = e2.recurringTodoId
                 /\ e1.originalDate = e2.originalDate) => e1 = e2
       /\ \A id \in RecurringTodoIds :
             \A x \in ExceptionInputs(InputFrequency(id)) :
                 (HasException(id, x[1]) /\ AddException(id, x[1], x[2], x[3])) =>
                    exceptions' = exceptions
      ]_vars

\* C15, witness: a template has an exception for a date, there is room for
\* another row, and an exception with another content is asked for the same
\* date.
C15_Witness ==
    \E e \in exceptions :
        \E x \in ExceptionInputs(InputFrequency(e.recurringTodoId)) :
            /\ e.recurringTodoId \in DOMAIN recurringTodos
            /\ x[1] = e.originalDate
            /\ <<x[2], x[3]>> # <<e.action, e.newDate>>
            /\ Cardinality(exceptions) < MaxExceptions
            /\ ENABLED AddException(e.recurringTodoId, x[1], x[2], x[3])

----------------------------------------------------------------------------
(* generateAllInstancesForUser: the batch starts one generateInstances     *)
(* call per active template of the user and awaits Promise.all of them.    *)
(* Call p of the batch is the one for template p.  An insert of a call may *)
(* fail (a storage error); generateInstances catches nothing, so the call  *)
(* then throws.  `reply` is what the caller of the batch has got so far.   *)

\* The templates of the user when the batch is called: "every Monday from
\* 2025-01-06" and "every second week on MO, WE, FR from 2025-01-08, four
\* times".
BatchTemplates ==
    LET mondays == CHOOSE r \in RuleInputs :
                       r.frequency = "WEEKLY" /\ r.byWeekDay = {}
        listed  == CHOOSE r \in RuleInputs :
                       r.frequency = "WEEKLY" /\ r.byWeekDay # {}
    IN  <<NewRecurringTodo(mondays), NewRecurringTodo(listed)>>

\* The windows that the batch is called with: <<fromDate, toDate>>.
BatchWindows ==
    {<<DayNumber(2025, 1, 6), DayNumber(2025, 1, 13)>>,
     <<DayNumber(2025, 1, 13), DayNumber(2025, 1, 27)>>}

\* Whether a call of the batch has returned or thrown.
IsSettled(frame) == frame.pc \in {"idle", "returned", "threw"}

\* An await that waits for every call and never fails (Promise.allSettled).
PromiseAllSettled(frames) ==
    IF \A p \in DOMAIN frames : IsSettled(frames[p])
    THEN [promise |-> "resolved"] ELSE [promise |-> "pending"]

\* await Promise.all(calls): rejected as soon as one call has thrown,
\* resolved once all have returned.
PromiseAll(frames) ==
    IF \E p \in DOMAIN frames : frames[p].pc = "threw"
    THEN [promise |-> "rejected"]
    ELSE IF \A p \in DOMAIN frames : IsSettled(frames[p])
         THEN [promise |-> "resolved"] ELSE [promise |-> "pending"]

\* findMany({userId, isActive: true}), then the map that starts the calls.
BatchStart(userId, fromDate, toDate) ==
    /\ \A p \in Callers : IsSettled(calls[p])
    /\ calls' = [p \in Callers |->
                    IF /\ p \in DOMAIN recurringTodos
                       /\ recurringTodos[p].userId = userId
                       /\ recurringTodos[p].isActive
                    THEN [pc |-> "started", fromDate |-> fromDate,
                          toDate |-> toDate]
                    ELSE Idle]
    /\ reply' = PromiseAll(calls')
    /\ UNCHANGED <<recurringTodos, exceptions, todos, clock>>

\* The findUnique of call p, and its run to the first insert.
BatchFind(p) ==
    /\ calls[p].pc = "started"
    /\ calls' =
          IF ReturnsEarly(p)
          THEN [calls EXCEPT ![p] = [pc |-> "returned",
                                     fromDate |-> calls[p].fromDate,
                                     toDate |-> calls[p].toDate]]
          ELSE LET recurringTodo ==
                       FindUnique(todos, p, calls[p].fromDate, calls[p].toDate)
                   occurrences ==
                       GetOccurrences(recurringTodo.row, calls[p].fromDate,
                                      calls[p].toDate)
               IN  [calls EXCEPT ![p] =
                       [pc            |-> "loop",
                        fromDate      |-> calls[p].fromDate,
                        toDate        |-> calls[p].toDate,
                        recurringTodo |-> recurringTodo,
                        pending       |-> MissingDates(recurringTodo, occurrences)]]
    /\ reply' = PromiseAll(calls')
    /\ UNCHANGED <<recurringTodos, exceptions, todos, clock>>

\* An insert of call p.
BatchCreate(p) ==
    /\ calls[p].pc = "loop"
    /\ calls[p].pending # <<>>
    /\ todos' = TodoInsert(todos, TodoCreateData(calls[p].recurringTodo,
                                                 Head(calls[p].pending)))
    /\ calls' = [calls EXCEPT ![p].pending = Tail(calls[p].pending)]
    /\ UNCHANGED <<recurringTodos, exceptions, clock, reply>>

\* An insert of call p fails: the call throws.
BatchCreateFails(p) ==
    /\ calls[p].pc = "loop"
    /\ calls[p].pending # <<>>
    /\ calls' = [calls EXCEPT ![p] = [pc |-> "threw",
                                      fromDate |-> calls[p].fromDate,
                                      toDate |-> calls[p].toDate]]
    /\ reply' = PromiseAll(calls')
    /\ UNCHANGED <<recurringTodos, exceptions, todos, clock>>

\* The update of lastGenerated of call p; the call returns.
BatchFinish(p) ==
    /\ calls[p].pc = "loop"
    /\ calls[p].pending = <<>>
    /\ recurringTodos' = SetLastGenerated(recurringTodos, p)
    /\ calls' = [calls EXCEPT ![p] = [pc |-> "returned",
                                      fromDate |-> calls[p].fromDate,
                                      toDate |-> calls[p].toDate]]
    /\ reply' = PromiseAll(calls')
    /\ UNCHANGED <<exceptions, todos, clock>>

BatchInit ==
    /\ recurringTodos = BatchTemplates
    /\ exceptions = {}
    /\ todos = EmptyBag
    /\ clock = 0
    /\ calls = [p \in Callers |-> Idle]
    /\ reply = NoReply
    /\ workspaces = <<>>
    /\ members = {}

BatchNext ==
    \/ \E userId \in UserIds, w \in BatchWindows :
          BatchStart(userId, w[1], w[2]) /\ UNCHANGED <<workspaces, members>>
    \/ \E p \in Callers : BatchFind(p) /\ UNCHANGED <<workspaces, members>>
    \/ \E p \in Callers : BatchCreate(p) /\ UNCHANGED <<workspaces, members>>
    \/ \E p \in Callers :
          BatchCreateFails(p) /\ UNCHANGED <<workspaces, members>>
    \/ \E p \in Callers : BatchFinish(p) /\ UNCHANGED <<workspaces, members>>
    \/ \E id \in DOMAIN recurringTodos, isActive \in BOOLEAN :
          Update(id, recurringTodos[id].userId, isActive)
             /\ UNCHANGED outsideVars

BatchSpec == BatchInit /\ [][BatchNext]_vars

\* The occurrences that call p has to leave with an instance.
BatchDates(p) ==
    OccurrenceDates(p, calls[p].fromDate, calls[p].toDate)

\* C19: a call of the batch that throws fails the batch call at once (what
\* its caller gets is the rejection, nothing per template), while the calls
\* for the other templates run on: none is stopped, and each that has
\* returned from its loop has left every occurrence of its window with an
\* instance.
C19_BatchFailsSiblingsRunOn ==
    /\ (\E p \in Callers : calls[p].pc = "threw") => reply = [promise |-> "rejected"]
    /\ \A p \in Callers :
          /\ (calls[p].pc = "loop" /\ calls[p].pending # <<>>) =>
                ENABLED BatchCreate(p)
          /\ (calls[p].pc = "loop" /\ calls[p].pending = <<>>) =>
                /\ ENABLED BatchFinish(p)
                /\ BatchDates(p) \subseteq InstanceDates(p)

\* C19 as the specification words it: the failure of one call does not
\* fail the batch call.
C19_BatchCallNeverFails ==
    reply # [promise |-> "rejected"]

\* C19, witness: the call for template 1 threw before it had created its
\* instances, the batch call is rejected, and the call for template 2 has
\* since created all of its own and returned.
C19_Witness ==
    /\ calls[1].pc = "threw"
    /\ ~(BatchDates(1) \subseteq InstanceDates(1))
    /\ calls[2].pc = "returned"
    /\ recurringTodos[2].lastGenerated # NoDate
    /\ BatchDates(2) # {}
    /\ BatchDates(2) \subseteq InstanceDates(2)
    /\ reply = [promise |-> "rejected"]

----------------------------------------------------------------------------
(* Workspaces (src/src/services/workspaceService.ts).  A call runs from    *)
(* its permission check to its write; `reply` tells whether it returned or *)
(* threw.  A member row is known by its content: a workspace has at most   *)
(* one row per user (WorkspaceMember_workspaceId_userId_key).              *)

WorkspaceIds == {1}

WorkspaceUserIds == {1, 2, 3}

WorkspaceNames == {"Home", "Work"}

WorkspaceMemberRole == {"OWNER", "ADMIN", "MEMBER", "VIEWER"}

\* getUserRole returns null.
NoRole == ""

\* A permission matrix that lets an ADMIN delete the workspace.
PERMISSIONSAdminDeletes ==
    [DELETE_WORKSPACE |-> {"OWNER", "ADMIN"},
     UPDATE_WORKSPACE |-> {"OWNER", "ADMIN"},
     ADD_MEMBER       |-> {"OWNER", "ADMIN"},
     REMOVE_MEMBER    |-> {"OWNER", "ADMIN"},
     CHANGE_ROLE      |-> {"OWNER", "ADMIN"},
     CREATE_TODO      |-> {"OWNER", "ADMIN", "MEMBER"},
     EDIT_TODO        |-> {"OWNER", "ADMIN", "MEMBER"},
     CREATE_LIST      |-> {"OWNER", "ADMIN", "MEMBER"},
     EDIT_LIST        |-> {"OWNER", "ADMIN", "MEMBER"},
     VIEW_WORKSPACE   |-> {"OWNER", "ADMIN", "MEMBER", "VIEWER"},
     COMMENT          |-> {"OWNER", "ADMIN", "MEMBER"}]

\* Permission matrix
PERMISSIONS ==
    [DELETE_WORKSPACE |-> {"OWNER"},
     UPDATE_WORKSPACE |-> {"OWNER", "ADMIN"},
     ADD_MEMBER       |-> {"OWNER", "ADMIN"},
     REMOVE_MEMBER    |-> {"OWNER", "ADMIN"},
     CHANGE_ROLE      |-> {"OWNER", "ADMIN"},
     CREATE_TODO      |-> {"OWNER", "ADMIN", "MEMBER"},
     EDIT_TODO        |-> {"OWNER", "ADMIN", "MEMBER"},
     CREATE_LIST      |-> {"OWNER", "ADMIN", "MEMBER"},
     EDIT_LIST        |-> {"OWNER", "ADMIN", "MEMBER"},
     VIEW_WORKSPACE   |-> {"OWNER", "ADMIN", "MEMBER", "VIEWER"},
     COMMENT          |-> {"OWNER", "ADMIN", "MEMBER"}]

\* getUserRole(workspaceId, userId): the role of the user's member row.
GetUserRole(workspaceId, userId) ==
    LET rows == {m \in members :
                    m.workspaceId = workspaceId /\ m.userId = userId}
    IN  IF rows = {} THEN NoRole ELSE (CHOOSE m \in rows : TRUE).role

\* A check that lets every member of the workspace pass.
HasPermissionAnyMember(workspaceId, userId, permission) ==
    GetUserRole(workspaceId, userId) # NoRole

\* hasPermission(workspaceId, userId, permission)
HasPermission(workspaceId, userId, permission) ==
    LET role == GetUserRole(workspaceId, userId)
    IN  IF role = NoRole THEN FALSE ELSE role \in PERMISSIONS[permission]

Returned == [returned |-> TRUE]

Threw(message) == [threw |-> message]

\* create(input, userId): the workspace and the member row of its owner.
WorkspaceCreate(workspaceId, name, userId) ==
    /\ workspaceId \notin DOMAIN workspaces
    /\ workspaces' = [w \in DOMAIN workspaces \cup {workspaceId} |->
                        IF w = workspaceId
                        THEN [name |-> name, ownerId |-> userId]
                        ELSE workspaces[w]]
    /\ members' = members \cup {[workspaceId |-> workspaceId,
                                  userId      |-> userId,
                                  role        |-> "OWNER"]}
    /\ reply' = Returned

\* update(workspaceId, userId, {name})
WorkspaceUpdate(workspaceId, userId, name) ==
    IF ~HasPermission(workspaceId, userId, "UPDATE_WORKSPACE")
    THEN /\ reply' = Threw("Insufficient permissions to update workspace")
         /\ UNCHANGED <<workspaces, members>>
    ELSE /\ workspaces' = [workspaces EXCEPT ![workspaceId].name = name]
         /\ reply' = Returned
         /\ UNCHANGED members

\* delete(workspaceId, userId); the member rows go with the workspace
\* (WorkspaceMember_workspaceId_fkey ... ON DELETE CASCADE).
WorkspaceDelete(workspaceId, userId) ==
    IF ~HasPermission(workspaceId, userId, "DELETE_WORKSPACE")
    THEN /\ reply' = Threw("Only workspace owner can delete workspace")
         /\ UNCHANGED <<workspaces, members>>
    ELSE /\ workspaces' = [w \in DOMAIN workspaces \ {workspaceId} |->
                             workspaces[w]]
         /\ members' = {m \in members : m.workspaceId # workspaceId}
         /\ reply' = Returned

\* addMember(workspaceId, {email, role}, invitedBy); userId is the user
\* that has the email, NoId when there is none; role NoRole is "not given".
AddMember(workspaceId, userId, role, invitedBy) ==
    /\ UNCHANGED workspaces
    /\ IF ~HasPermission(workspaceId, invitedBy, "ADD_MEMBER")
       THEN /\ reply' = Threw("Insufficient permissions to add members")
            /\ UNCHANGED members
       ELSE IF userId = NoId
       THEN /\ reply' = Threw("User not found")
            /\ UNCHANGED members
       ELSE IF GetUserRole(workspaceId, userId) # NoRole
       THEN /\ reply' = Threw("User is already a member of this workspace")
            /\ UNCHANGED members
       ELSE /\ members' = members \cup
                             {[workspaceId |-> workspaceId,
                               userId      |-> userId,
                               role        |-> IF role = NoRole THEN "MEMBER"
                                               ELSE role]}
            /\ reply' = Returned

\* removeMember(workspaceId, memberId, userId) of a stored member row.
RemoveMember(workspaceId, member, userId) ==
    /\ UNCHANGED workspaces
    /\ IF member \notin members \/ member.workspaceId # workspaceId
       THEN /\ reply' = Threw("Member not found in this workspace")
            /\ UNCHANGED members
       ELSE IF member.role = "OWNER"
       THEN /\ reply' = Threw("Cannot remove workspace owner")
            /\ UNCHANGED members
       ELSE IF /\ member.userId # userId
               /\ ~HasPermission(workspaceId, userId, "REMOVE_MEMBER")
       THEN /\ reply' = Threw("Insufficient permissions to remove members")
            /\ UNCHANGED members
       ELSE /\ members' = members \ {member}
            /\ reply' = Returned

\* updateMemberRole(workspaceId, memberId, role, userId)
UpdateMemberRole(workspaceId, member, role, userId) ==
    /\ UNCHANGED workspaces
    /\ IF ~HasPermission(workspaceId, userId, "CHANGE_ROLE")
       THEN /\ reply' = Threw("Insufficient permissions to change member roles")
            /\ UNCHANGED members
       ELSE IF member \notin members \/ member.workspaceId # workspaceId
       THEN /\ reply' = Threw("Member not found in this workspace")
            /\ UNCHANGED members
       ELSE IF member.role = "OWNER"
       THEN /\ reply' = Threw("Cannot change role of workspace owner")
            /\ UNCHANGED members
       ELSE /\ members' = (members \ {member}) \cup
                             {[member EXCEPT !.role = role]}
            /\ reply' = Returned

WorkspaceNext ==
    \/ \E w \in WorkspaceIds, name \in WorkspaceNames, u \in WorkspaceUserIds :
          WorkspaceCreate(w, name, u) /\ UNCHANGED serviceVars
    \/ \E w \in WorkspaceIds, u \in WorkspaceUserIds, name \in WorkspaceNames :
          WorkspaceUpdate(w, u, name) /\ UNCHANGED serviceVars
    \/ \E w \in WorkspaceIds, u \in WorkspaceUserIds :
          WorkspaceDelete(w, u) /\ UNCHANGED serviceVars
    \/ \E w \in WorkspaceIds, u \in WorkspaceUserIds \cup {NoId} :
          \E role \in WorkspaceMemberRole \cup {NoRole}, by \in WorkspaceUserIds :
             AddMember(w, u, role, by) /\ UNCHANGED serviceVars
    \/ \E w \in WorkspaceIds, m \in members, u \in WorkspaceUserIds :
          RemoveMember(w, m, u) /\ UNCHANGED serviceVars
    \/ \E w \in WorkspaceIds, m \in members :
          \E role \in WorkspaceMemberRole, u \in WorkspaceUserIds :
             UpdateMemberRole(w, m, role, u) /\ UNCHANGED serviceVars

WorkspaceSpec == Init /\ [][WorkspaceNext]_vars

\* C20: a delete call by a user whose role in the workspace is OWNER removes
\* the workspace, and an update call by an OWNER or an ADMIN renames it; for
\* any other role, and for a user who is no member, the call throws and
\* leaves the workspace and its members as they are.
C20_OnlyOwnerDeletesOwnerOrAdminUpdates ==
    [][\A w \in WorkspaceIds, u \in WorkspaceUserIds :
          LET role == GetUserRole(w, u) IN
          /\ WorkspaceDelete(w, u) =>
                IF w \in DOMAIN workspaces /\ role = "OWNER"
                THEN w \notin DOMAIN workspaces' /\ reply' = Returned
                ELSE /\ UNCHANGED <<workspaces, members>>
                     /\ reply' = Threw("Only workspace owner can delete workspace")
          /\ \A name \in WorkspaceNames :
                WorkspaceUpdate(w, u, name) =>
                   IF w \in DOMAIN workspaces /\ role \in {"OWNER", "ADMIN"}
                   THEN /\ workspaces'[w].name = name
                        /\ reply' = Returned
                   ELSE /\ UNCHANGED <<workspaces, members>>
                        /\ reply' =
                              Threw("Insufficient permissions to update workspace")
      ]_vars

\* C20, witness: the workspace has an OWNER, an ADMIN and a third member,
\* and the last call, a delete, threw: it came from one of the latter two.
C20_Witness ==
    \E w \in DOMAIN workspaces :
        /\ \E u \in WorkspaceUserIds : GetUserRole(w, u) = "OWNER"
        /\ \E u \in WorkspaceUserIds : GetUserRole(w, u) = "ADMIN"
        /\ \E u \in WorkspaceUserIds : GetUserRole(w, u) \in {"MEMBER", "VIEWER"}
        /\ workspaces[w].name = "Work"
        /\ reply = Threw("Only workspace owner can delete workspace")

----------------------------------------------------------------------------
(* Conflicts between concurrent generateInstances calls. *)

\* The template that the call of caller p works on.
TemplateOf(p) == calls[p].recurringTodo.id

\* C21: when the insert of a call is for an occurrence that a concurrent
\* caller has materialized in the meantime, the store turns it down and the
\* call goes on to its next occurrence with nothing created for this one.
C21_ConflictingInsertCreatesNothing ==
    [][\A p \in Callers :
          (/\ calls[p] # Idle
           /\ calls[p].pending # <<>>
           /\ InstanceCount(todos, TemplateOf(p), Head(calls[p].pending)) >= 1
           /\ CreateNext(p)) =>
             /\ todos' = todos
             /\ calls'[p].pending = Tail(calls[p].pending)
      ]_vars

----------------------------------------------------------------------------
(* Generation for a template that does not exist. *)

\* C22: generateInstances for an id that has no stored template returns
\* normally (the handler that awaits it goes on to its success reply and
\* not to its catch block), creates no instance and writes nothing: no row
\* of any table is added, changed or removed.
C22_MissingTemplateReturnsNormally ==
    [][\A userId \in RouteUserIds, id \in RecurringTodoIds :
          \A fromDate, toDate \in GivenWindowDates :
              (id \notin DOMAIN recurringTodos
                  /\ PostGenerate(userId, id, fromDate, toDate)) =>
                 /\ reply' # InternalError
                 /\ reply' = GenerateReply(Void)
                 /\ BagCardinality(todos') = BagCardinality(todos)
                 /\ todos' = todos
                 /\ recurringTodos' = recurringTodos
                 /\ exceptions' = exceptions
      ]_vars

\* C22, witness: nothing is stored at all (no template was ever created, or
\* the store was emptied), and the last request, a generation, got the
\* success reply.
C22_Witness ==
    /\ DOMAIN recurringTodos = {}
    /\ todos = EmptyBag
    /\ exceptions = {}
    /\ reply = GenerateReply(Void)

----------------------------------------------------------------------------
(* A store error in the middle of generation. *)

\* The retry of the call of p that threw, run alone: it leaves the rows that
\* are stored as they are, and adds one row for each occurrence of the
\* window that has none yet, and nothing else.
RetryCompletes(p) ==
    LET after   == GenerateInstancesTodos(todos, p, calls[p].fromDate,
                                          calls[p].toDate)
        added   == {t \in BagToSet(after) : CopiesIn(t, after) > CopiesIn(t, todos)}
    IN  /\ \A t \in BagToSet(todos) : CopiesIn(t, after) = CopiesIn(t, todos)
        /\ \A t \in added : CopiesIn(t, after) = 1 /\ t.recurringTodoId = p
        /\ {t.recurringDate : t \in added} = BatchDates(p) \ InstanceDates(p)
        /\ \A d \in BatchDates(p) : InstanceCount(after, p, d) = 1

\* C23: in every state in which a call has been aborted by a failed insert,
\* the error has reached the caller that awaits the call, the rows created
\* before the failure are in the store, and the same call made again
\* creates the occurrences still missing, once each, and none of those
\* already there.
C23_PartialFailureIsResumable ==
    \A p \in Callers :
        calls[p].pc = "threw" =>
            /\ reply = [promise |-> "rejected"]
            /\ \A d \in InstanceDates(p) : InstanceCount(todos, p, d) = 1
            /\ recurringTodos[p].isActive => RetryCompletes(p)

\* C23, witness: the call for template 1 threw after it had created some of
\* the instances of its window and before it had created them all.
C23_Witness ==
    /\ calls[1].pc = "threw"
    /\ recurringTodos[1].isActive
    /\ BatchDates(1) \cap InstanceDates(1) # {}
    /\ BatchDates(1) \ InstanceDates(1) # {}
    /\ reply = [promise |-> "rejected"]

----------------------------------------------------------------------------
(* lastGenerated. *)

\* The values of lastGenerated that C24 compares: none, today, and the end
\* of the window (the value that a call over the window has written).
LastGeneratedValues(toDate) ==
    {NoDate, clock, toDate}

\* The Todo table that the loop of generateInstances makes of `store` when
\* findUnique has returned `recurringTodo`.
LoopResult(store, recurringTodo, fromDate, toDate) ==
    CreateInstances(store, recurringTodo,
        MissingDates(recurringTodo,
                     GetOccurrences(recurringTodo.row, fromDate, toDate)))

\* C24: from every reachable state and for every window, the instances that
\* generateInstances creates are the same whatever value the template's
\* lastGenerated has.
C24_LastGeneratedIsNotRead ==
    \A id \in DOMAIN recurringTodos :
        \A fromDate, toDate \in WindowDates(InputFrequency(id)) :
            LET found == FindUnique(todos, id, fromDate, toDate)
                asStored == LoopResult(todos, found, fromDate, toDate)
            IN  \A v \in LastGeneratedValues(toDate) :
                    LoopResult(todos, [found EXCEPT !.row.lastGenerated = v],
                               fromDate, toDate) = asStored

\* C24, witness: a template that has been generated from (lastGenerated is
\* set) and still lacks instances in a window that it already has instances
\* in; a call over that window creates them.
C24_Witness ==
    \E id \in DOMAIN recurringTodos :
        \E w \in Windows(id) :
            /\ recurringTodos[id].isActive
            /\ recurringTodos[id].lastGenerated # NoDate
            /\ \E d \in InstanceDates(id) : w[1] <= d /\ d <= w[2]
            /\ CreatedRows(id, w[1], w[2]) # {}

----------------------------------------------------------------------------
(* What generateInstances leaves alone. *)

\* The steps of generateInstances: the only operation of the service that
\* writes the Todo table or lastGenerated.
IsGenerateStep ==
    \/ todos' # todos
    \/ \E id \in DOMAIN recurringTodos \cap DOMAIN recurringTodos' :
          recurringTodos'[id].lastGenerated # recurringTodos[id].lastGenerated

\* C25: a step of generateInstances keeps every stored Todo row as it is
\* (it only adds rows), keeps the exceptions, and changes no field of a
\* template other than lastGenerated.
C25_GenerateOnlyAddsInstances ==
    [][IsGenerateStep =>
          /\ \A t \in BagToSet(todos) : CopiesIn(t, todos') >= CopiesIn(t, todos)
          /\ exceptions' = exceptions
          /\ DOMAIN recurringTodos' = DOMAIN recurringTodos
          /\ \A id \in DOMAIN recurringTodos :
                [recurringTodos'[id] EXCEPT !.lastGenerated = NoDate]
                   = [recurringTodos[id] EXCEPT !.lastGenerated = NoDate]]_vars

\* C25, witness: an instance and a skip exception of the same date are both
\* stored, next to an instance that a reschedule exception of its date has
\* not moved, and a generation over a window that covers them has run.
C25_Witness ==
    \E id \in DOMAIN recurringTodos :
        /\ recurringTodos[id].lastGenerated # NoDate
        /\ \E t \in InstancesOf(id), e \in exceptions :
              /\ e.recurringTodoId = id
              /\ e.originalDate = t.recurringDate
              /\ e.action = "skip"
        /\ \E t \in InstancesOf(id), e \in exceptions :
              /\ e.recurringTodoId = id
              /\ e.originalDate = t.recurringDate
              /\ e.action = "reschedule"
              /\ t.dueDate # e.newDate

----------------------------------------------------------------------------
(* Soft deletion of tasks (todoService). *)

\* The number of soft-deleted rows the model lets the table hold.
MaxDeleted == 2

\* todoService.getByIdForUser: the row, if it is the user's and not deleted.
GetByIdForUser(t, userId) ==
    /\ t \in BagToSet(todos)
    /\ t.deletedAt = NoDate
    /\ t.userId = userId

\* The soft-deleted rows of the table.
DeletedRows == {t \in BagToSet(todos) : t.deletedAt # NoDate}

\* todoService.deleteForUser(id, userId) on one stored copy of row t: the
\* row stays in the table with deletedAt = now.  When getByIdForUser finds
\* nothing the call returns false and writes nothing.
DeleteForUser(t, userId) ==
    /\ GetByIdForUser(t, userId)
    /\ BagCount(todos, DeletedRows) < MaxDeleted
    /\ todos' = (todos (-) SetToBag({t}))
                    (+) SetToBag({[t EXCEPT !.deletedAt = clock]})
    /\ UNCHANGED <<recurringTodos, exceptions, clock, calls>>

SoftDeleteNext ==
    \/ \E id \in RecurringTodoIds, input \in RuleInputs :
          Create(id, input) /\ UNCHANGED outsideVars
    \/ \E id \in RecurringTodoIds :
          \E fromDate, toDate \in WindowDates(InputFrequency(id)) :
             GenerateInstances(id, fromDate, toDate) /\ UNCHANGED outsideVars
    \/ \E t \in BagToSet(todos), userId \in UserIds :
          DeleteForUser(t, userId) /\ UNCHANGED outsideVars
    \/ Tick /\ UNCHANGED outsideVars

SoftDeleteSpec == Init /\ [][SoftDeleteNext]_vars

\* C26: a soft-deleted instance is the only row of its template and
\* recurringDate, and no generateInstances call, whatever its window, creates
\* another row for that date.
C26_SoftDeletedInstanceIsNotReplaced ==
    \A t \in DeletedRows :
        t.recurringTodoId \in DOMAIN recurringTodos =>
            /\ InstanceCount(todos, t.recurringTodoId, t.recurringDate) = 1
            /\ \A fromDate, toDate \in
                     WindowDates(InputFrequency(t.recurringTodoId)) :
                   InstanceCount(GenerateInstancesTodos(todos, t.recurringTodoId,
                                                        fromDate, toDate),
                                 t.recurringTodoId, t.recurringDate) = 1

\* C26, witness: an instance was soft-deleted, generateInstances ran on the
\* active template on a later day and created instances of later dates, and
\* the deleted instance is still the only row of its date.
C26_Witness ==
    \E t \in DeletedRows :
        /\ t.recurringTodoId \in DOMAIN recurringTodos
        /\ recurringTodos[t.recurringTodoId].isActive
        /\ recurringTodos[t.recurringTodoId].lastGenerated > t.deletedAt
        /\ \E u \in InstancesOf(t.recurringTodoId) :
              u.deletedAt = NoDate /\ u.recurringDate > t.recurringDate
        /\ InstanceCount(todos, t.recurringTodoId, t.recurringDate) = 1

----------------------------------------------------------------------------
(* The key of deduplication. *)

\* Whether a skip exception is stored for the occurrence of date.
HasSkip(id, date) ==
    \E e \in exceptions :
        e.recurringTodoId = id /\ e.originalDate = date /\ e.action = "skip"

\* C27: for an active template and any window, whether a call leaves an
\* instance for an occurrence of the window is decided by that occurrence's
\* own date alone: it keeps the instances stored for the date, and creates
\* one (with that recurringDate) when none is stored and the date is not
\* skipped, whether or not another instance is due on that date and wherever
\* its own due date falls.
C27_DedupKeyIsRecurringDate ==
    \A id \in DOMAIN recurringTodos :
        recurringTodos[id].isActive =>
            \A w \in Windows(id) :
                LET after == GenerateInstancesTodos(todos, id, w[1], w[2]) IN
                \A d \in OccurrenceDates(id, w[1], w[2]) :
                    InstanceCount(after, id, d)
                       = IF InstanceCount(todos, id, d) >= 1
                         THEN InstanceCount(todos, id, d)
                         ELSE IF HasSkip(id, d) THEN 0 ELSE 1

\* C27, witness: two instances of a template with different recurringDates
\* are due on the same date, one of them moved there by a reschedule
\* exception, and no date has two instances.
C27_Witness ==
    \E id \in DOMAIN recurringTodos :
        /\ \E t, u \in InstancesOf(id) :
              /\ t.recurringDate # u.recurringDate
              /\ t.dueDate = u.dueDate
              /\ u.dueDate = u.recurringDate
              /\ \E e \in exceptions :
                    /\ e.recurringTodoId = id
                    /\ e.originalDate = t.recurringDate
                    /\ e.action = "reschedule"
                    /\ e.newDate = t.dueDate
        /\ \A t \in InstancesOf(id) : InstanceCount(todos, id, t.recurringDate) = 1

----------------------------------------------------------------------------
(* Removing a skip exception. *)

----------------------------------------------------------------------------
(* Deactivation while a call is in flight. *)

\* C29: while the template of a call in flight is stored as inactive, the
\* call takes neither its next prisma.todo.create nor its final write of
\* lastGenerated.
C29_DeactivationStopsCallInFlight ==
    [][\A p \in Callers :
          (/\ calls[p] # Idle
           /\ TemplateOf(p) \in DOMAIN recurringTodos
           /\ ~recurringTodos[TemplateOf(p)].isActive) =>
              /\ ~CreateNext(p)
              /\ ~FinishGenerate(p)
      ]_vars

----------------------------------------------------------------------------
(* Ownership on the generate and exception routes. *)

\* C30: a POST /:id/generate or POST /:id/exceptions request of a user who
\* does not own template id leaves the Todo table, the exceptions and the
\* templates (lastGenerated included) as they are.
C30_OnlyOwnerGeneratesAndAddsExceptions ==
    [][\A userId \in RouteUserIds :
          \A id \in DOMAIN recurringTodos :
              (/\ recurringTodos[id].userId # userId
               /\ \/ \E fromDate, toDate \in RouteWindowDates :
                        PostGenerate(userId, id, fromDate, toDate)
                  \/ \E x \in ExceptionBodies :
                        PostException(userId, id, x[1], x[2], x[3])) =>
                  /\ todos' = todos
                  /\ exceptions' = exceptions
                  /\ recurringTodos' = recurringTodos
      ]_vars
====
